---- MODULE Spec2Model ----
(***************************************************************************)
(* A model of package replay (richshaffer/replay): the request fingerprint *)
(* (PathGenerator), the recording store (Recording.Save / LoadRecording)   *)
(* and the intercepting transport (RoundTripper.RoundTrip).                *)
(*                                                                         *)
(* Go strings and byte slices are sequences of byte values (0..255).       *)
(* A multimap (url.Values, http.Header) is a sequence of <<key, values>>   *)
(* pairs with distinct keys; the order of the pairs is the order in which  *)
(* Go's map iteration happens to present the keys.                         *)
(***************************************************************************)
EXTENDS Integers, Sequences, FiniteSets, TLC

\* ------------------------------------------------------------------------
\* Bounds of the model
\* ------------------------------------------------------------------------

\* RoundTrip calls made in one behaviour of the transport specifications.
MaxCalls == 3

\* The longest value list of a query parameter or header of a request.
MaxVals == 2

\* LoadRecording calls made by the reader of the store specifications.
MaxLoads == 2

VARIABLES
    fp,     \* the fingerprint specification: generator, two requests, results
    cd,     \* the codec specification: a recording, its file, what loads
    sv,     \* the store specification: concurrent Save and LoadRecording
    tr,     \* the transport specification: the client, its calls in progress, the last one
    fs,     \* the file system under Dir
    go      \* the Go release the program is built with

vars == <<fp, cd, sv, tr, fs, go>>

\* The value of a variable in a specification that does not use it.
Idle == [pc |-> "idle"]

\* ------------------------------------------------------------------------
\* Bytes and strings
\* ------------------------------------------------------------------------

Range(s) == {s[i] : i \in 1..Len(s)}

RECURSIVE Concat(_)
\* The concatenation of a sequence of strings.
Concat(ss) == IF ss = <<>> THEN <<>> ELSE Head(ss) \o Concat(Tail(ss))

RECURSIVE StrLess(_, _)
\* a < b in Go's string order (bytewise lexicographic).
StrLess(a, b) ==
    IF b = <<>> THEN FALSE
    ELSE IF a = <<>> THEN TRUE
    ELSE IF a[1] # b[1] THEN a[1] < b[1]
    ELSE StrLess(Tail(a), Tail(b))

RECURSIVE Insert(_, _)
Insert(k, sorted) ==
    IF sorted = <<>> THEN <<k>>
    ELSE IF StrLess(Head(sorted), k) THEN <<Head(sorted)>> \o Insert(k, Tail(sorted))
    ELSE <<k>> \o sorted

RECURSIVE SortStrings(_)
\* sort.Sort(sort.StringSlice): the strings in increasing order.
SortStrings(ss) == IF ss = <<>> THEN <<>> ELSE Insert(Head(ss), SortStrings(Tail(ss)))

RECURSIVE Digits(_)
\* The decimal digits of n > 0 as ASCII bytes, no leading zero; <<>> for 0.
Digits(n) == IF n = 0 THEN <<>> ELSE Append(Digits(n \div 10), 48 + (n % 10))

\* strconv.Itoa for n >= 0.
Itoa(n) == IF n = 0 THEN <<48>> ELSE Digits(n)

\* ------------------------------------------------------------------------
\* hash/crc32, IEEE polynomial.  A 32-bit register is the pair of its
\* 16-bit halves <<hi, lo>>.
\* ------------------------------------------------------------------------

RECURSIVE Xor(_, _)
Xor(a, b) ==
    IF a = 0 THEN b
    ELSE IF b = 0 THEN a
    ELSE ((a + b) % 2) + 2 * Xor(a \div 2, b \div 2)

\* crc32.IEEE = 0xedb88320 (the reflected polynomial), as halves.
PolyHi == 60856
PolyLo == 33568
Not32(c) == <<65535 - c[1], 65535 - c[2]>>

\* One bit of the reflected CRC: shift right, and xor the polynomial in when
\* the bit shifted out was set.
CrcShift(c) ==
    LET hi == c[1] \div 2
        lo == (c[2] \div 2) + (c[1] % 2) * 32768
    IN  IF c[2] % 2 = 1 THEN <<Xor(hi, PolyHi), Xor(lo, PolyLo)>> ELSE <<hi, lo>>

CrcByte(c, b) ==
    CrcShift(CrcShift(CrcShift(CrcShift(CrcShift(CrcShift(CrcShift(CrcShift(
        <<c[1], Xor(c[2], b)>>))))))))

RECURSIVE CrcUpdate(_, _)
\* (The test of c comes first so that the register is a value, not a pending
\* expression, at every byte.)
CrcUpdate(c, p) ==
    IF c[1] < 0 \/ p = <<>> THEN c ELSE CrcUpdate(CrcByte(c, Head(p)), Tail(p))

\* crc32.NewIEEE(): the digest's register starts at 0.
NewIEEE == <<0, 0>>

\* digest.Write(p): the register is kept inverted between calls.
HashWrite(h, p) == Not32(CrcUpdate(Not32(h), p))

RECURSIVE WriteAll(_, _)
\* Successive Writes of the strings of ss.
WriteAll(h, ss) ==
    IF h[1] < 0 \/ ss = <<>> THEN h ELSE WriteAll(HashWrite(h, Head(ss)), Tail(ss))

RECURSIVE Pad(_, _)
Pad(d, n) == IF Len(d) >= n THEN d ELSE Pad(<<48>> \o d, n)

\* strconv.FormatUint(uint64(h.Sum32()), 10).  The value hi * 65536 + lo does
\* not fit a 32-bit signed integer, so it is split as a * 10^5 + b.
FormatSum32(h) ==
    LET x  == h[1] * 655
        b0 == (x % 1000) * 100 + h[1] * 36 + h[2]
        a  == (x \div 1000) + (b0 \div 100000)
        b  == b0 % 100000
    IN  IF a = 0 THEN Itoa(b) ELSE Digits(a) \o Pad(Digits(b), 5)

\* ------------------------------------------------------------------------
\* net/url and path/filepath helpers used by the path generator
\* ------------------------------------------------------------------------

HexDigit(n) == IF n < 10 THEN 48 + n ELSE 55 + n

\* url.QueryEscape's shouldEscape(c, encodeQueryComponent): letters, digits
\* and - _ . ~ are kept.
Unreserved(c) ==
    \/ (c >= 97 /\ c <= 122) \/ (c >= 65 /\ c <= 90) \/ (c >= 48 /\ c <= 57)
    \/ c \in {45, 95, 46, 126}

RECURSIVE QueryEscape(_)
\* url.QueryEscape: a space becomes +, any other reserved byte %XX.
QueryEscape(s) ==
    IF s = <<>> THEN <<>>
    ELSE (IF Unreserved(Head(s)) THEN <<Head(s)>>
          ELSE IF Head(s) = 32 THEN <<43>>
          ELSE <<37, HexDigit(Head(s) \div 16), HexDigit(Head(s) % 16)>>)
         \o QueryEscape(Tail(s))

RECURSIVE SplitFrom(_, _, _)
\* The elements of s from index i on, seps being the indexes from i on at
\* which s has the separator.
SplitFrom(s, i, seps) ==
    IF seps = {} THEN <<SubSeq(s, i, Len(s))>>
    ELSE LET Cut(j) == <<SubSeq(s, i, j - 1)>> \o SplitFrom(s, j + 1, seps \ {j})
         IN  Cut(CHOOSE j \in seps : \A k \in seps : j <= k)

\* strings.Split(s, sep) for a one-byte separator.
Split(s, sep) == SplitFrom(s, 1, {j \in 1..Len(s) : s[j] = sep})

RECURSIVE JoinWith(_, _)
\* strings.Join(parts, sep).
JoinWith(parts, sep) ==
    IF parts = <<>> THEN <<>>
    ELSE IF Len(parts) = 1 THEN parts[1]
    ELSE parts[1] \o <<sep>> \o JoinWith(Tail(parts), sep)

NonEmpty(s) == s # <<>>

RECURSIVE CleanSegs(_, _, _)
\* filepath.Clean's pass over the elements: "" and "." are dropped, ".."
\* removes the element before it, or is kept when there is none to remove
\* (dropped at the root).
CleanSegs(segs, out, rooted) ==
    IF segs = <<>> THEN out
    ELSE LET e == Head(segs) IN
         IF e = <<>> \/ e = <<46>> THEN CleanSegs(Tail(segs), out, rooted)
         ELSE IF e = <<46, 46>> THEN
              IF out # <<>> /\ out[Len(out)] # <<46, 46>>
              THEN CleanSegs(Tail(segs), SubSeq(out, 1, Len(out) - 1), rooted)
              ELSE IF rooted THEN CleanSegs(Tail(segs), out, rooted)
              ELSE CleanSegs(Tail(segs), Append(out, e), rooted)
         ELSE CleanSegs(Tail(segs), Append(out, e), rooted)

\* filepath.Clean on a slash-separated path.
Clean(p) ==
    LET rooted == p # <<>> /\ p[1] = 47
        body   == JoinWith(CleanSegs(Split(p, 47), <<>>, rooted), 47)
    IN  IF rooted THEN <<47>> \o body
        ELSE IF body = <<>> THEN <<46>> ELSE body

\* filepath.Join: the non-empty elements joined by the separator and cleaned;
\* the empty string when every element is empty.
FilepathJoin(elems) ==
    LET ne == SelectSeq(elems, NonEmpty)
    IN  IF ne = <<>> THEN <<>> ELSE Clean(JoinWith(ne, 47))

\* filepath.Split: the directory (with its trailing separator) and the file.
RECURSIVE LastSlash(_, _)
LastSlash(p, i) == IF i = 0 THEN 0 ELSE IF p[i] = 47 THEN i ELSE LastSlash(p, i - 1)

FilepathSplit(p) ==
    LET i == LastSlash(p, Len(p))
    IN  [dir |-> SubSeq(p, 1, i), file |-> SubSeq(p, i + 1, Len(p))]


\* ------------------------------------------------------------------------
\* recording_path.go: StringSet, RecordingPath, PathGenerator
\* ------------------------------------------------------------------------

\* DefaultOmitHeaders(): Authorization, Connection, Date,
\* Proxy-Authorization, Transfer-Encoding, Upgrade.
DefaultOmitHeaders ==
    { <<65, 117, 116, 104, 111, 114, 105, 122, 97, 116, 105, 111, 110>>,
      <<67, 111, 110, 110, 101, 99, 116, 105, 111, 110>>,
      <<68, 97, 116, 101>>,
      <<80, 114, 111, 120, 121, 45, 65, 117, 116, 104, 111, 114, 105, 122, 97,
        116, 105, 111, 110>>,
      <<84, 114, 97, 110, 115, 102, 101, 114, 45, 69, 110, 99, 111, 100, 105,
        110, 103>>,
      <<85, 112, 103, 114, 97, 100, 101>> }

\* NewPathGenerator(): the default header exclusions, no query exclusions,
\* no body hook.
NewPathGenerator ==
    [OmitHeaders |-> DefaultOmitHeaders, OmitQuery |-> {}, MungeRequestBody |-> "nil"]

\* "request.json" and the two halves of "request." + checksum + ".json".
GenericName == <<114, 101, 113, 117, 101, 115, 116, 46, 106, 115, 111, 110>>
NamePrefix  == <<114, 101, 113, 117, 101, 115, 116, 46>>
NameSuffix  == <<46, 106, 115, 111, 110>>

\* RecordingPath.GenericPath.
GenericPath(r) == FilepathJoin(<<r.dir, GenericName>>)

\* Path without the checksum: every request of a directory has one file.
PathWithoutChecksum(r) == GenericPath(r)

\* RecordingPath.Path.
Path(r) ==
    IF r.checksum # <<>>
    THEN FilepathJoin(<<r.dir, NamePrefix \o r.checksum \o NameSuffix>>)
    ELSE GenericPath(r)

\* The keys of multimap m in the order the map presents them.
Keys(m) == [i \in 1..Len(m) |-> m[i][1]]

\* m[k]: the value list of key k.
Lookup(m, k) == m[CHOOSE i \in 1..Len(m) : m[i][1] = k][2]

RECURSIVE WriteKeys(_, _, _)
\* The loop of updateHash over the sorted keys: the key, then each value.
WriteKeys(h, m, ks) ==
    IF h[1] < 0 \/ ks = <<>> THEN h
    ELSE WriteKeys(WriteAll(HashWrite(h, Head(ks)), Lookup(m, Head(ks))), m, Tail(ks))

\* updateHash without the sort: the keys are fed in the order the map
\* presents them.
updateHashUnsorted(m, h, excludes) ==
    LET NotExcluded(k) == k \notin excludes
        values == SelectSeq(Keys(m), NotExcluded)
    IN  [h |-> WriteKeys(h, m, values), has |-> Len(values) > 0]

\* updateHash without the inner loop: the keys are fed, their values are not.
updateHashKeysOnly(m, h, excludes) ==
    LET NotExcluded(k) == k \notin excludes
        values == SortStrings(SelectSeq(Keys(m), NotExcluded))
    IN  [h |-> WriteKeys(h, [i \in DOMAIN m |-> <<m[i][1], <<>> >>], values),
         has |-> Len(values) > 0]

\* updateHash with the values of each key sorted before they are fed.
updateHashSortedValues(m, h, excludes) ==
    LET NotExcluded(k) == k \notin excludes
        values == SortStrings(SelectSeq(Keys(m), NotExcluded))
    IN  [h |-> WriteKeys(h, [i \in DOMAIN m |-> <<m[i][1], SortStrings(m[i][2])>>], values),
         has |-> Len(values) > 0]

\* hashableMap.updateHash: the keys not excluded, sorted, are fed to the hash
\* with their values; reports whether any key was fed.
updateHash(m, h, excludes) ==
    LET NotExcluded(k) == k \notin excludes
        values == SortStrings(SelectSeq(Keys(m), NotExcluded))
    IN  [h |-> WriteKeys(h, m, values), has |-> Len(values) > 0]

\* The bytes removed by the body hook of the model: ASCII digits (a hook that
\* hides a counter or a timestamp from the checksum).
IsDigit(b) == b >= 48 /\ b <= 57
NotDigit(b) == ~IsDigit(b)

\* PathGenerator.MungeRequestBody applied to a stream of bytes.
Munge(p, data) == IF p.MungeRequestBody = "nil" THEN data ELSE SelectSeq(data, NotDigit)

\* What is left to read of a body: the bytes from its read position on.
Rest(b) == SubSeq(b.data, b.pos + 1, Len(b.data))

\* The bytes a reader gets from body b before it ends or fails: a body whose
\* read fails delivers its first failAt bytes only.
Readable(b) ==
    IF b.fail = "read" THEN SubSeq(Rest(b), 1, b.failAt) ELSE Rest(b)

\* A nil req.Body.
NoBody == [kind |-> "nil", data |-> <<>>, pos |-> 0, fail |-> "none", failAt |-> 0]

Seekable(b) == b.kind = "seeker"
HasGetBody(b) == b.kind = "getbody"

\* HashBody that leaves as the body the bytes it hashed: the hook alters
\* what is sent.
HashBodyKeepsMunged(p, h, b) ==
    LET copied == Munge(p, Readable(b))
        h2 == HashWrite(h, copied)
        drained == [b EXCEPT !.pos = b.pos + Len(Readable(b))]
    IN  IF ~Seekable(b) /\ ~HasGetBody(b)
        THEN [out |-> IF b.fail = "read" THEN "err" ELSE "panic",
              err |-> IF b.fail = "read" THEN "read" ELSE "nil",
              h |-> h2, n |-> Len(copied), body |-> drained]
        ELSE IF b.fail # "none"
        THEN [out |-> "err", err |-> b.fail, h |-> h2, n |-> Len(copied),
              body |-> IF b.fail = "getbody" THEN NoBody ELSE drained]
        ELSE [out |-> "ok", err |-> "nil", h |-> h2, n |-> Len(copied),
              body |-> [b EXCEPT !.data = copied, !.pos = 0]]

\* The body part of RequestCRC (the block under req.Body != nil), from hash
\* state h.  out is "ok", "err" (an error is returned) or "panic" (the call
\* of the nil GetBody); err is the error returned (the failure of the body
\* that caused it; "nil" for none); body is req.Body as it is left.  The
\* error of io.Copy is overwritten by the result of GetBody, and so is
\* req.Body: a GetBody that fails returns (nil, err) and leaves req.Body nil.
HashBody(p, h, b) ==
    LET buffered == ~Seekable(b) /\ ~HasGetBody(b)
        copied == Munge(p, Readable(b))
        h2 == HashWrite(h, copied)
        drained == [b EXCEPT !.pos = b.pos + Len(Readable(b))]
    IN  IF buffered /\ b.fail = "read"
        THEN [out |-> "err", err |-> "read", h |-> h, n |-> 0, body |-> drained]
        ELSE IF Seekable(b)
        THEN IF b.fail \in {"read", "seek"}
             THEN [out |-> "err", err |-> b.fail, h |-> h2, n |-> Len(copied),
                   body |-> drained]
             ELSE [out |-> "ok", err |-> "nil", h |-> h2, n |-> Len(copied),
                   body |-> [b EXCEPT !.pos = 0]]
        ELSE IF ~HasGetBody(b)
        THEN [out |-> "panic", err |-> "nil", h |-> h2, n |-> Len(copied),
              body |-> drained]
        ELSE IF b.fail = "getbody"
        THEN [out |-> "err", err |-> "getbody", h |-> h2, n |-> Len(copied),
              body |-> NoBody]
        ELSE [out |-> "ok", err |-> "nil", h |-> h2, n |-> Len(copied),
              body |-> [b EXCEPT !.pos = 0, !.fail = "none"]]

\* RequestCRC without the test of hasHash: the sum is always formatted.
RequestCRCAlwaysSums(p, req) ==
    LET q  == updateHash(req.Query, NewIEEE, p.OmitQuery)
        hd == updateHash(req.Header, q.h, p.OmitHeaders)
    IN  IF req.Body.kind = "nil"
        THEN [out |-> "ok", err |-> "nil", body |-> req.Body, crc |-> FormatSum32(hd.h)]
        ELSE LET b == HashBody(p, hd.h, req.Body) IN
             IF b.out # "ok"
             THEN [out |-> b.out, err |-> b.err, body |-> b.body, crc |-> <<>>]
             ELSE [out |-> "ok", err |-> "nil", body |-> b.body,
                   crc |-> FormatSum32(b.h)]

\* PathGenerator.RequestCRC.
RequestCRC(p, req) ==
    LET q  == updateHash(req.Query, NewIEEE, p.OmitQuery)
        hd == updateHash(req.Header, q.h, p.OmitHeaders)
        hasHash == hd.has \/ q.has
    IN  IF req.Body.kind = "nil"
        THEN [out |-> "ok", err |-> "nil", body |-> req.Body,
              crc |-> IF hasHash THEN FormatSum32(hd.h) ELSE <<>>]
        ELSE LET b == HashBody(p, hd.h, req.Body) IN
             IF b.out # "ok"
             THEN [out |-> b.out, err |-> b.err, body |-> b.body, crc |-> <<>>]
             ELSE [out |-> "ok", err |-> "nil", body |-> b.body,
                   crc |-> IF hasHash \/ b.n > 0 THEN FormatSum32(b.h) ELSE <<>>]

\* The directory parts of PathGenerator.RecordingPath: scheme, escaped host,
\* method, and the escaped non-empty segments of the URL path.
PathParts(req) ==
    LET segs == SelectSeq(Split(req.Path, 47), NonEmpty)
    IN  (IF req.Scheme # <<>> THEN <<req.Scheme>> ELSE <<>>)
        \o (IF req.Host # <<>> THEN <<QueryEscape(req.Host)>> ELSE <<>>)
        \o (IF req.Method # <<>> THEN <<req.Method>> ELSE <<>>)
        \o [i \in 1..Len(segs) |-> QueryEscape(segs[i])]

\* PathGenerator.RecordingPath.
RecordingPath(p, req) ==
    LET crc == RequestCRC(p, req)
    IN  [out |-> crc.out, err |-> crc.err, body |-> crc.body,
         dir |-> IF crc.out = "ok" THEN JoinWith(PathParts(req), 47) ELSE <<>>,
         checksum |-> crc.crc]

\* ------------------------------------------------------------------------
\* Inputs of the fingerprint specification
\* ------------------------------------------------------------------------

sA == <<97>>
sB == <<98>>
sAB == <<97, 98>>
sAA == <<97, 97>>
kQ == <<113>>
kT == <<116>>
kX == <<88>>
kY == <<89>>
kDate == <<68, 97, 116, 101>>
sHTTP == <<104, 116, 116, 112>>
sHost == <<104, 58, 56, 48>>
sGET == <<71, 69, 84>>
sPOST == <<80, 79, 83, 84>>
sPathX == <<47, 120>>

Body(kind, data) == [kind |-> kind, data |-> data, pos |-> 0, fail |-> "none", failAt |-> 0]
FailingBody(kind, data, fail, at) ==
    [kind |-> kind, data |-> data, pos |-> 0, fail |-> fail, failAt |-> at]

\* Value lists of up to MaxVals values "a" or "b", the one value "ab", and
\* the values "a" and "aa" in their two orders.
ValueLists ==
    UNION {[1..n -> {sA, sB}] : n \in 1..MaxVals}
    \cup {<<sAB>>, <<sA, sAA>>, <<sAA, sA>>}

\* The multimaps over the two keys k1 and k2: empty, one key with any value
\* list, and both keys (in either order of presentation) with single values.
Multimaps(k1, k2) ==
    {<<>>}
    \cup {<< <<k, vl>> >> : k \in {k1, k2}, vl \in ValueLists}
    \cup {<< <<k1, <<v1>> >>, <<k2, <<v2>> >> >> : v1 \in {sA, sB}, v2 \in {sA, sB}}
    \cup {<< <<k2, <<v2>> >>, <<k1, <<v1>> >> >> : v1 \in {sA, sB}, v2 \in {sA, sB}}

Bodies ==
    { NoBody,
      Body("getbody", <<>>), Body("getbody", sA), Body("getbody", sB),
      Body("getbody", <<97, 49>>), Body("getbody", <<97, 50>>),
      Body("getbody", <<49>>),
      Body("seeker", sA), Body("seeker", <<97, 49>>), Body("plain", sA),
      Body("plain", <<>>),
      FailingBody("getbody", sAB, "read", 1), FailingBody("getbody", sA, "getbody", 0),
      FailingBody("seeker", sA, "read", 0), FailingBody("seeker", sA, "seek", 0),
      FailingBody("plain", sA, "read", 0) }

Request(method, query, header, body) ==
    [Method |-> method, Scheme |-> sHTTP, Host |-> sHost, Path |-> sPathX,
     Query |-> query, Header |-> header, Body |-> body]

\* Requests to one URL that vary the headers, the query, or the body and
\* method; and the value "a" under key "q" as a header rather than a query.
FPRequests ==
    {Request(sGET, <<>>, h, NoBody) : h \in Multimaps(kX, kDate)}
    \cup {Request(sGET, q, <<>>, NoBody) : q \in Multimaps(kQ, kT)}
    \cup {Request(m, <<>>, <<>>, b) : m \in {sGET, sPOST}, b \in Bodies}
    \cup {Request(sGET, <<>>, << <<kQ, <<sA>> >> >>, NoBody),
          Request(sGET, << <<kQ, <<sA>> >> >>, << <<kX, <<sA>> >> >>, Body("getbody", sA))}

\* The generators: the default one, one that also excludes query parameter
\* "t", and one with a body hook.
FPGenerators ==
    { NewPathGenerator,
      [NewPathGenerator EXCEPT !.OmitQuery = {kT}],
      [NewPathGenerator EXCEPT !.MungeRequestBody = "digits"] }

\* ------------------------------------------------------------------------
\* The fingerprint specification: RecordingPath applied to two requests
\* ------------------------------------------------------------------------

NoResult == [out |-> "none"]

FPInit ==
    /\ fp \in [pc : {"new"}, gen : FPGenerators, reqA : FPRequests,
               reqB : {Request(sGET, <<>>, <<>>, NoBody)},
               resA : {NoResult}, resB : {NoResult}]
    /\ cd = Idle /\ sv = Idle /\ tr = Idle /\ fs = Idle /\ go = Idle

\* RecordingPath(reqA).
FPFirst ==
    /\ fp.pc = "new"
    /\ fp' = [fp EXCEPT !.pc = "one", !.resA = RecordingPath(fp.gen, fp.reqA)]
    /\ UNCHANGED <<cd, sv, tr, fs, go>>

\* RecordingPath(reqB), for any second request.
FPSecond ==
    /\ fp.pc = "one"
    /\ \E r \in FPRequests :
         fp' = [fp EXCEPT !.pc = "two", !.reqB = r,
                             !.resB = RecordingPath(fp.gen, r)]
    /\ UNCHANGED <<cd, sv, tr, fs, go>>

FPNext == FPFirst \/ FPSecond

SpecFP == FPInit /\ [][FPNext]_vars

\* ------------------------------------------------------------------------
\* encoding/json as Recording.Save and LoadRecording use it
\* ------------------------------------------------------------------------

\* A Recording: Status, StatusCode, Proto, ProtoMajor, ProtoMinor, Headers
\* (a multimap) and Body.
Recording(status, code, proto, major, minor, headers, body) ==
    [Status |-> status, StatusCode |-> code, Proto |-> proto, ProtoMajor |-> major,
     ProtoMinor |-> minor, Headers |-> headers, Body |-> body]

\* The JSON names of the struct tags.
jStatus     == <<115, 116, 97, 116, 117, 115>>
jStatusCode == <<115, 116, 97, 116, 117, 115, 95, 99, 111, 100, 101>>
jProto      == <<112, 114, 111, 116, 111>>
jProtoMajor == <<112, 114, 111, 116, 111, 95, 109, 97, 106, 111, 114>>
jProtoMinor == <<112, 114, 111, 116, 111, 95, 109, 105, 110, 111, 114>>
jHeaders    == <<104, 101, 97, 100, 101, 114, 115>>

LowerHex(n) == IF n < 10 THEN 48 + n ELSE 87 + n

\* The Go releases the program builds with, told apart by the one thing
\* encoding/json does differently for this program: from Go 1.22 on the
\* encoder writes the bytes 8 and 12 of a string as \b and \f, before that as
\* \u0008 and \u000c.  The variable go is the release of the running build.
GoReleases == {"go1.21", "go1.22"}

\* The release of the specifications whose strings hold neither byte 8 nor
\* byte 12, for which all releases write the same files; the codec
\* specification runs every release.
OneRelease == "go1.22"

\* A Go int (64 bits) as sign and magnitude, the magnitude in three limbs to
\* the base 10^9: hi * 10^18 + mid * 10^9 + lo.  Zero has no sign.
Limb == 1000000000

\* The int of a small number n.
GoInt(n) ==
    [neg |-> n < 0, hi |-> 0, mid |-> (IF n < 0 THEN -n ELSE n) \div Limb,
     lo |-> (IF n < 0 THEN -n ELSE n) % Limb]

\* strconv.AppendInt(v, 10): the sign, then the digits of the magnitude, the
\* limbs below the first one that is not zero padded to nine digits.
FormatInt(v) ==
    LET Pad9(n) == [k \in 1..(9 - Len(Itoa(n))) |-> 48] \o Itoa(n)
    IN  (IF v.neg THEN <<45>> ELSE <<>>)
        \o (IF v.hi > 0 THEN Itoa(v.hi) \o Pad9(v.mid) \o Pad9(v.lo)
            ELSE IF v.mid > 0 THEN Itoa(v.mid) \o Pad9(v.lo)
            ELSE Itoa(v.lo))

\* The nil []string, which the encoder writes as null and the decoder makes
\* of null; no list of strings equals it, -1 being no byte.
NilStrings == << <<-1>> >>

\* One byte below 0x80 of a string as the encoder writes it (HTML escaping
\* on, the Encoder's default): \" \\ \n \r \t, \b and \f from Go 1.22 on,
\* \u00XX for the other control bytes and for < > &, the byte itself
\* otherwise.
EscapeByte(b) ==
    IF b = 34 THEN <<92, 34>>
    ELSE IF b = 92 THEN <<92, 92>>
    ELSE IF b = 10 THEN <<92, 110>>
    ELSE IF b = 13 THEN <<92, 114>>
    ELSE IF b = 9  THEN <<92, 116>>
    ELSE IF b = 8 /\ go = "go1.22" THEN <<92, 98>>
    ELSE IF b = 12 /\ go = "go1.22" THEN <<92, 102>>
    ELSE IF b < 32 \/ b \in {60, 62, 38}
         THEN <<92, 117, 48, 48, LowerHex(b \div 16), LowerHex(b % 16)>>
    ELSE <<b>>

\* s has at i a byte from lo to hi.
Cont(s, i, lo, hi) == i <= Len(s) /\ s[i] >= lo /\ s[i] <= hi

\* utf8.DecodeRune at s[i], a byte of 0x80 or more: the width of the
\* well-formed encoding that begins there, 0 when none does (RuneError of
\* width 1).  Overlong forms, surrogates and code points above U+10FFFF are
\* not well-formed.
RuneLen(s, i) ==
    LET b == s[i]
    IN  IF b >= 194 /\ b <= 223
        THEN IF Cont(s, i + 1, 128, 191) THEN 2 ELSE 0
        ELSE IF b >= 224 /\ b <= 239
        THEN IF /\ Cont(s, i + 1, IF b = 224 THEN 160 ELSE 128,
                                  IF b = 237 THEN 159 ELSE 191)
                /\ Cont(s, i + 2, 128, 191)
             THEN 3 ELSE 0
        ELSE IF b >= 240 /\ b <= 244
        THEN IF /\ Cont(s, i + 1, IF b = 240 THEN 144 ELSE 128,
                                  IF b = 244 THEN 143 ELSE 191)
                /\ Cont(s, i + 2, 128, 191)
                /\ Cont(s, i + 3, 128, 191)
             THEN 4 ELSE 0
        ELSE 0

\* U+FFFD in UTF-8.
ReplacementChar == <<239, 191, 189>>

RECURSIVE EscapeFrom(_, _)
\* The bytes of s from i on as the encoder writes them: a byte that begins
\* no well-formed UTF-8 encoding becomes the escape of U+FFFD, U+2028 and
\* U+2029 become their escapes, any other encoding is copied.
EscapeFrom(s, i) ==
    IF i > Len(s) THEN <<>>
    ELSE IF s[i] < 128 THEN EscapeByte(s[i]) \o EscapeFrom(s, i + 1)
    ELSE IF RuneLen(s, i) = 0
         THEN <<92, 117, 102, 102, 102, 100>> \o EscapeFrom(s, i + 1)
    ELSE IF s[i] = 226 /\ s[i + 1] = 128 /\ s[i + 2] \in {168, 169}
         THEN <<92, 117, 50, 48, 50, LowerHex(s[i + 2] - 160)>> \o EscapeFrom(s, i + 3)
    ELSE SubSeq(s, i, i + RuneLen(s, i) - 1) \o EscapeFrom(s, i + RuneLen(s, i))

EscapeBytes(s) == EscapeFrom(s, 1)

\* A JSON string literal.
EncString(s) == <<34>> \o EscapeBytes(s) \o <<34>>

\* A newline and the indentation of depth d (SetIndent("", "  ")).
NewLine(d) == <<10>> \o [i \in 1..(2 * d) |-> 32]

RECURSIVE EncItems(_, _)
\* Already encoded items, each on a line of its own at depth d, separated by
\* commas.
EncItems(items, d) ==
    IF items = <<>> THEN <<>>
    ELSE NewLine(d) \o Head(items)
         \o (IF Len(items) > 1 THEN <<44>> ELSE <<>>) \o EncItems(Tail(items), d)

\* A []string at depth d: null for the nil slice, [] for an empty one.
EncArray(vs, d) ==
    IF vs = NilStrings THEN <<110, 117, 108, 108>>
    ELSE IF vs = <<>> THEN <<91, 93>>
    ELSE <<91>> \o EncItems([i \in 1..Len(vs) |-> EncString(vs[i])], d + 1)
         \o NewLine(d) \o <<93>>

\* "name": value
EncMember(name, value) == EncString(name) \o <<58, 32>> \o value

\* An http.Header at depth d: the keys in sorted order.
EncHeaders(m, d) ==
    LET ks == SortStrings(Keys(m))
    IN  <<123>>
        \o EncItems([i \in 1..Len(ks) |->
                        EncMember(ks[i], EncArray(Lookup(m, ks[i]), d + 1))], d + 1)
        \o NewLine(d) \o <<125>>

\* enc.Encode(&r): the indented object of the fields that are not zero
\* (omitempty; a map without keys counts as zero), then the newline Encode
\* ends every value with.
Encode(r) ==
    LET members ==
            (IF r.Status # <<>> THEN <<EncMember(jStatus, EncString(r.Status))>> ELSE <<>>)
         \o (IF r.StatusCode # GoInt(0)
             THEN <<EncMember(jStatusCode, FormatInt(r.StatusCode))>> ELSE <<>>)
         \o (IF r.Proto # <<>> THEN <<EncMember(jProto, EncString(r.Proto))>> ELSE <<>>)
         \o (IF r.ProtoMajor # GoInt(0)
             THEN <<EncMember(jProtoMajor, FormatInt(r.ProtoMajor))>> ELSE <<>>)
         \o (IF r.ProtoMinor # GoInt(0)
             THEN <<EncMember(jProtoMinor, FormatInt(r.ProtoMinor))>> ELSE <<>>)
         \o (IF r.Headers # <<>> THEN <<EncMember(jHeaders, EncHeaders(r.Headers, 1))>> ELSE <<>>)
    IN  (IF members = <<>> THEN <<123, 125>>
         ELSE <<123>> \o EncItems(members, 1) \o NewLine(0) \o <<125>>)
        \o <<10>>

\* A parse result: ok, the value v, and the index i of the next byte.  The
\* decoder first reads one whole JSON value and then stores it; an error of
\* either kind (syntax, or a value of the wrong type for its field) makes
\* Decode return an error, and is not ok here.
Fail == [ok |-> FALSE, v |-> <<>>, i |-> 1]
Parsed(v, i) == [ok |-> TRUE, v |-> v, i |-> i]

\* JSON white space: space, tab, carriage return, newline.
IsWS(b) == b \in {32, 9, 13, 10}

RECURSIVE SkipWS(_, _)
\* The index of the first byte at or after i that is not white space
\* (Len(s) + 1 when there is none).
SkipWS(s, i) == IF i > Len(s) \/ ~IsWS(s[i]) THEN i ELSE SkipWS(s, i + 1)

At(s, i, b) == i <= Len(s) /\ s[i] = b

HexVal(b) ==
    IF b >= 48 /\ b <= 57 THEN b - 48
    ELSE IF b >= 97 /\ b <= 102 THEN b - 87
    ELSE IF b >= 65 /\ b <= 70 THEN b - 55
    ELSE -1

\* utf8.EncodeRune: the UTF-8 encoding of code point c, that of U+FFFD for a
\* surrogate.
UTF8(c) ==
    IF c < 128 THEN <<c>>
    ELSE IF c < 2048 THEN <<192 + (c \div 64), 128 + (c % 64)>>
    ELSE IF c >= 55296 /\ c <= 57343 THEN ReplacementChar
    ELSE IF c < 65536
         THEN <<224 + (c \div 4096), 128 + ((c \div 64) % 64), 128 + (c % 64)>>
    ELSE <<240 + (c \div 262144), 128 + ((c \div 4096) % 64),
           128 + ((c \div 64) % 64), 128 + (c % 64)>>

\* A decoded prefix in front of the decoding r of the rest.
Prepend(bytes, r) == IF r.ok THEN Parsed(bytes \o r.v, 0) ELSE Fail

\* The byte a one-letter escape stands for, -1 for no escape.
EscapeVal(b) ==
    CASE b = 34 -> 34 [] b = 92 -> 92 [] b = 47 -> 47 [] b = 98 -> 8 [] b = 102 -> 12
      [] b = 110 -> 10 [] b = 114 -> 13 [] b = 116 -> 9 [] OTHER -> -1

HexVal4(h) == HexVal(h[1]) * 4096 + HexVal(h[2]) * 256 + HexVal(h[3]) * 16 + HexVal(h[4])

\* getu4: the code unit of the escape \uXXXX at raw[i], -1 when there is no
\* such escape there.
U4(raw, i) ==
    IF i + 5 > Len(raw) \/ raw[i] # 92 \/ raw[i + 1] # 117
       \/ \E k \in (i + 2)..(i + 5) : HexVal(raw[k]) < 0
    THEN -1
    ELSE HexVal4(SubSeq(raw, i + 2, i + 5))

RECURSIVE UnescapeFrom(_, _)
\* unquoteBytes from raw[i] on.  A surrogate escape followed by the escape
\* of a low surrogate that completes it stands for one code point above
\* U+FFFF; any other surrogate escape, and any byte that begins no
\* well-formed UTF-8 encoding, becomes U+FFFD.
UnescapeFrom(raw, i) ==
    IF i > Len(raw) THEN Parsed(<<>>, 0)
    ELSE IF raw[i] < 32 THEN Fail
    ELSE IF raw[i] >= 128 THEN
         IF RuneLen(raw, i) = 0 THEN Prepend(ReplacementChar, UnescapeFrom(raw, i + 1))
         ELSE Prepend(SubSeq(raw, i, i + RuneLen(raw, i) - 1),
                      UnescapeFrom(raw, i + RuneLen(raw, i)))
    ELSE IF raw[i] # 92 THEN Prepend(<<raw[i]>>, UnescapeFrom(raw, i + 1))
    ELSE IF i + 1 > Len(raw) THEN Fail
    ELSE IF raw[i + 1] = 117 THEN
         LET r1 == U4(raw, i)
             r2 == U4(raw, i + 6)
         IN  IF r1 < 0 THEN Fail
             ELSE IF r1 < 55296 \/ r1 > 57343
             THEN Prepend(UTF8(r1), UnescapeFrom(raw, i + 6))
             ELSE IF r1 < 56320 /\ r2 >= 56320 /\ r2 <= 57343
             THEN Prepend(UTF8(65536 + (r1 - 55296) * 1024 + (r2 - 56320)),
                          UnescapeFrom(raw, i + 12))
             ELSE Prepend(ReplacementChar, UnescapeFrom(raw, i + 6))
    ELSE IF EscapeVal(raw[i + 1]) < 0 THEN Fail
    ELSE Prepend(<<EscapeVal(raw[i + 1])>>, UnescapeFrom(raw, i + 2))

\* The string a JSON string literal's content stands for; not ok on a control
\* byte or an invalid escape.
Unescape(raw) == UnescapeFrom(raw, 1)

RECURSIVE ClosingQuote(_, _)
\* The index of the quote that closes a literal, looked for from j on: the
\* first quote that no backslash escapes (0 when there is none).
ClosingQuote(s, j) ==
    IF j > Len(s) THEN 0
    ELSE IF s[j] = 92 THEN ClosingQuote(s, j + 2)
    ELSE IF s[j] = 34 THEN j
    ELSE ClosingQuote(s, j + 1)

\* The literal opened at i and closed at j.
StringBetween(s, i, j, u) == IF u.ok THEN Parsed(u.v, j + 1) ELSE Fail

StringClosedAt(s, i, j) ==
    IF j = 0 THEN Fail
    ELSE StringBetween(s, i, j, Unescape(SubSeq(s, i + 1, j - 1)))

\* A string literal at i.
ParseString(s, i) ==
    IF ~At(s, i, 34) THEN Fail
    ELSE StringClosedAt(s, i, ClosingQuote(s, i + 1))

RECURSIVE DigitsVal(_)
DigitsVal(d) ==
    IF d = <<>> THEN 0 ELSE DigitsVal(SubSeq(d, 1, Len(d) - 1)) * 10 + (d[Len(d)] - 48)

RECURSIVE DigitsEnd(_, _)
\* The index of the first byte at or after i that is not a digit.
DigitsEnd(s, i) == IF i > Len(s) \/ ~IsDigit(s[i]) THEN i ELSE DigitsEnd(s, i + 1)

\* strconv.ParseInt(_, 10, 64) of the digits s[i..end-1] under the sign neg:
\* a range error beyond 9223372036854775807, or 9223372036854775808 under
\* a minus sign.  A literal with a leading zero, or with a fraction or an
\* exponent, is no int.
IntBetween(s, neg, i, end) ==
    LET n    == end - i
        lo   == DigitsVal(SubSeq(s, IF n > 9 THEN end - 9 ELSE i, end - 1))
        mid  == IF n > 9 THEN DigitsVal(SubSeq(s, IF n > 18 THEN end - 18 ELSE i, end - 10))
                ELSE 0
        hi   == IF n > 18 THEN DigitsVal(SubSeq(s, i, end - 19)) ELSE 0
        last == IF neg THEN 854775808 ELSE 854775807
    IN  IF n = 0 \/ (s[i] = 48 /\ n > 1)
           \/ (end <= Len(s) /\ s[end] \in {46, 101, 69})
        THEN Fail
        ELSE IF n > 19 \/ hi > 9 \/ (hi = 9 /\ mid > 223372036)
                \/ (hi = 9 /\ mid = 223372036 /\ lo > last)
        THEN Fail
        ELSE Parsed([neg |-> neg /\ (hi + mid + lo > 0), hi |-> hi, mid |-> mid, lo |-> lo],
                    end)

\* An integer literal at i, for a field of type int: an optional minus sign
\* and digits.
ParseInt(s, i) ==
    IF At(s, i, 45) THEN IntBetween(s, TRUE, i + 1, DigitsEnd(s, i + 1))
    ELSE IntBetween(s, FALSE, i, DigitsEnd(s, i))

\* The word w at i.
AtWord(s, i, w) == i + Len(w) - 1 <= Len(s) /\ SubSeq(s, i, i + Len(w) - 1) = w

\* The literal null at i.
AtNull(s, i) == AtWord(s, i, <<110, 117, 108, 108>>)

\* The index after the JSON number at i, 0 when there is none: an optional
\* minus sign, digits without a leading zero, an optional fraction, an
\* optional exponent.
NumberEnd(s, i) ==
    LET a == IF At(s, i, 45) THEN i + 1 ELSE i
        b == DigitsEnd(s, a)
        c == IF At(s, b, 46) THEN DigitsEnd(s, b + 1) ELSE b
        e == IF At(s, c, 101) \/ At(s, c, 69)
             THEN (IF At(s, c + 1, 43) \/ At(s, c + 1, 45) THEN c + 2 ELSE c + 1)
             ELSE c
        f == IF e > c THEN DigitsEnd(s, e) ELSE c
    IN  IF b = a \/ (s[a] = 48 /\ b - a > 1) THEN 0
        ELSE IF c = b + 1 THEN 0
        ELSE IF e > c /\ f = e THEN 0
        ELSE f

RECURSIVE SkipValue(_, _)
RECURSIVE SkipElems(_, _)
RECURSIVE SkipMembers(_, _)

\* The index after the elements of an array and its ], from the element
\* expected at i on; 0 when they are not well-formed.
SkipElems(s, i) ==
    LET k == SkipValue(s, SkipWS(s, i))
        n == SkipWS(s, k)
    IN  IF k = 0 THEN 0
        ELSE IF At(s, n, 93) THEN n + 1
        ELSE IF At(s, n, 44) THEN SkipElems(s, n + 1)
        ELSE 0

\* The index after the members of an object and its }, from the member
\* expected at i on; 0 when they are not well-formed.
SkipMembers(s, i) ==
    LET key == ParseString(s, SkipWS(s, i))
        c   == SkipWS(s, key.i)
        k   == SkipValue(s, SkipWS(s, c + 1))
        n   == SkipWS(s, k)
    IN  IF ~key.ok THEN 0
        ELSE IF ~At(s, c, 58) THEN 0
        ELSE IF k = 0 THEN 0
        ELSE IF At(s, n, 125) THEN n + 1
        ELSE IF At(s, n, 44) THEN SkipMembers(s, n + 1)
        ELSE 0

\* The index after the JSON value at i, of whatever type, 0 when there is no
\* well-formed value: what the decoder does with the value of a member that
\* names no field.
SkipValue(s, i) ==
    IF i > Len(s) THEN 0
    ELSE IF s[i] = 34 THEN (IF ParseString(s, i).ok THEN ParseString(s, i).i ELSE 0)
    ELSE IF s[i] = 123
    THEN (IF At(s, SkipWS(s, i + 1), 125) THEN SkipWS(s, i + 1) + 1
          ELSE SkipMembers(s, i + 1))
    ELSE IF s[i] = 91
    THEN (IF At(s, SkipWS(s, i + 1), 93) THEN SkipWS(s, i + 1) + 1
          ELSE SkipElems(s, i + 1))
    ELSE IF s[i] = 45 \/ IsDigit(s[i]) THEN NumberEnd(s, i)
    ELSE IF AtNull(s, i) \/ AtWord(s, i, <<116, 114, 117, 101>>) THEN i + 4
    ELSE IF AtWord(s, i, <<102, 97, 108, 115, 101>>) THEN i + 5
    ELSE 0

RECURSIVE ParseStrings(_, _, _)

\* After an element of the array: its end, or a comma and more elements.
StringsNext(s, acc, k) ==
    IF At(s, k, 93) THEN Parsed(acc, k + 1)
    ELSE IF At(s, k, 44) THEN ParseStrings(s, k + 1, acc)
    ELSE Fail

StringsElem(s, acc, e) ==
    IF ~e.ok THEN Fail ELSE StringsNext(s, Append(acc, e.v), SkipWS(s, e.i))

\* An element is a string, or null, which leaves the element the empty
\* string.
StringsAt(s, j, acc) ==
    IF acc = <<>> /\ At(s, j, 93) THEN Parsed(acc, j + 1)
    ELSE StringsElem(s, acc, IF AtNull(s, j) THEN Parsed(<<>>, j + 4)
                             ELSE ParseString(s, j))

\* The elements of an array of strings after its [, acc the ones read so far.
ParseStrings(s, i, acc) == StringsAt(s, SkipWS(s, i), acc)

\* A []string at i: an array of strings, or null for the nil slice.
ParseArray(s, i) ==
    IF AtNull(s, i) THEN Parsed(NilStrings, i + 4)
    ELSE IF At(s, i, 91) THEN ParseStrings(s, i + 1, <<>>)
    ELSE Fail

\* m with key k set to values vs (a later member of the same name wins).
SetKey(m, k, vs) ==
    LET Other(e) == e[1] # k IN Append(SelectSeq(m, Other), <<k, vs>>)

RECURSIVE ParseHeaderMembers(_, _, _, _)

\* After a member of the headers object: its end, or a comma and more.
HeaderNext(s, acc, k) ==
    IF At(s, k, 125) THEN Parsed(acc, k + 1)
    ELSE IF At(s, k, 44) THEN ParseHeaderMembers(s, k + 1, acc, FALSE)
    ELSE Fail

HeaderValue(s, acc, key, val) ==
    IF ~val.ok THEN Fail ELSE HeaderNext(s, SetKey(acc, key, val.v), SkipWS(s, val.i))

HeaderColon(s, acc, key, c) ==
    IF ~At(s, c, 58) THEN Fail
    ELSE HeaderValue(s, acc, key, ParseArray(s, SkipWS(s, c + 1)))

HeaderKey(s, acc, key) ==
    IF ~key.ok THEN Fail ELSE HeaderColon(s, acc, key.v, SkipWS(s, key.i))

HeaderAt(s, j, acc, first) ==
    IF first /\ At(s, j, 125) THEN Parsed(acc, j + 1)
    ELSE HeaderKey(s, acc, ParseString(s, j))

\* The members of the headers object after its {, added to the map acc;
\* first tells that none has been read.
ParseHeaderMembers(s, i, acc, first) == HeaderAt(s, SkipWS(s, i), acc, first)

\* An http.Header at i, decoded into the map m the field holds: the members
\* of an object are added to m.
ParseHeaders(s, i, m) ==
    IF At(s, i, 123) THEN ParseHeaderMembers(s, i + 1, m, TRUE)
    ELSE Fail

ZeroRecording == Recording(<<>>, GoInt(0), <<>>, GoInt(0), GoInt(0), <<>>, <<>>)

\* Recording r with the decoded value v stored in the field named key.
SetField(r, key, v) ==
    IF ~v.ok THEN Fail
    ELSE Parsed(CASE key = jStatus     -> [r EXCEPT !.Status = v.v]
                  [] key = jProto      -> [r EXCEPT !.Proto = v.v]
                  [] key = jStatusCode -> [r EXCEPT !.StatusCode = v.v]
                  [] key = jProtoMajor -> [r EXCEPT !.ProtoMajor = v.v]
                  [] key = jProtoMinor -> [r EXCEPT !.ProtoMinor = v.v]
                  [] key = jHeaders    -> [r EXCEPT !.Headers = v.v], v.i)

RECURSIVE FoldFrom(_, _)
\* bytes.EqualFold as far as it bears on names of ASCII letters: the key
\* from i on with A..Z in lower case, U+017F (long s) as s and U+212A
\* (Kelvin sign) as k.
FoldFrom(key, i) ==
    IF i > Len(key) THEN <<>>
    ELSE IF key[i] >= 65 /\ key[i] <= 90 THEN <<key[i] + 32>> \o FoldFrom(key, i + 1)
    ELSE IF key[i] = 197 /\ At(key, i + 1, 191) THEN <<115>> \o FoldFrom(key, i + 2)
    ELSE IF key[i] = 226 /\ At(key, i + 1, 132) /\ At(key, i + 2, 170)
         THEN <<107>> \o FoldFrom(key, i + 3)
    ELSE <<key[i]>> \o FoldFrom(key, i + 1)

\* The field of Recording a member name selects: the one whose JSON name it
\* is, else the one whose JSON name it is but for case; <<>> when there is
\* none (Body has the tag "-" and no name).
FieldOf(key) ==
    LET names == {jStatus, jProto, jStatusCode, jProtoMajor, jProtoMinor, jHeaders}
    IN  IF key \in names THEN key
        ELSE IF FoldFrom(key, 1) \in names THEN FoldFrom(key, 1)
        ELSE <<>>

\* The value at i of the member named key, stored into recording r.  The
\* value of a member that names no field is skipped; null leaves a string
\* or an int as it is and sets the map of Headers to nil.
ParseMember(s, i, key, r) ==
    IF FieldOf(key) = <<>>
    THEN (IF SkipValue(s, i) = 0 THEN Fail ELSE Parsed(r, SkipValue(s, i)))
    ELSE IF AtNull(s, i)
    THEN Parsed(IF FieldOf(key) = jHeaders THEN [r EXCEPT !.Headers = <<>>] ELSE r, i + 4)
    ELSE SetField(r, FieldOf(key),
                  IF FieldOf(key) \in {jStatus, jProto} THEN ParseString(s, i)
                  ELSE IF FieldOf(key) = jHeaders THEN ParseHeaders(s, i, r.Headers)
                  ELSE ParseInt(s, i))

RECURSIVE ParseMembers(_, _, _, _)

\* After a member of the recording object: its end, or a comma and more.
MemberNext(s, m, k) ==
    IF At(s, k, 125) THEN Parsed(m, k + 1)
    ELSE IF At(s, k, 44) THEN ParseMembers(s, k + 1, m, FALSE)
    ELSE Fail

MemberValue(s, m) == IF ~m.ok THEN Fail ELSE MemberNext(s, m.v, SkipWS(s, m.i))

MemberColon(s, r, key, c) ==
    IF ~At(s, c, 58) THEN Fail
    ELSE MemberValue(s, ParseMember(s, SkipWS(s, c + 1), key, r))

MemberKey(s, r, key) ==
    IF ~key.ok THEN Fail ELSE MemberColon(s, r, key.v, SkipWS(s, key.i))

MemberAt(s, j, r, first) ==
    IF first /\ At(s, j, 125) THEN Parsed(r, j + 1)
    ELSE MemberKey(s, r, ParseString(s, j))

\* The members of the recording object after its {; first tells that none
\* has been read.
ParseMembers(s, i, r, first) == MemberAt(s, SkipWS(s, i), r, first)

\* The outcome of Decode for the object parsed as m.
Decoded(m) ==
    IF m.ok THEN [out |-> "ok", rec |-> m.v, i |-> m.i]
    ELSE [out |-> "err", rec |-> ZeroRecording, i |-> 1]

DecodeAt(s, j) ==
    IF AtNull(s, j) THEN [out |-> "null", rec |-> ZeroRecording, i |-> j + 4]
    ELSE IF ~At(s, j, 123) THEN [out |-> "err", rec |-> ZeroRecording, i |-> 1]
    ELSE Decoded(ParseMembers(s, j + 1, ZeroRecording, TRUE))

\* dec.Decode(&rec) on the bytes of a file: out is "ok" with the recording
\* and the index of the first byte after the JSON object, "null" for the
\* literal null (rec stays nil), or "err".
Decode(s) == DecodeAt(s, SkipWS(s, 1))

\* ------------------------------------------------------------------------
\* The file system: files maps each existing file to its bytes, dirs is the
\* set of directories that were made, noperm the files that cannot be opened.
\* Files and directories go by the names their paths resolve to ("d/e" for
\* "d//e/" and for "d/./x/../e"); a name without a leading separator is below
\* the working directory.  There are no symbolic links.
\* ------------------------------------------------------------------------

EmptyFS == [files |-> [q \in {} |-> <<>>], dirs |-> {}, noperm |-> {}]

Exists(f, path) == path \in DOMAIN f.files

\* f.files with path holding bytes.
PutFile(f, path, bytes) ==
    [f EXCEPT !.files = [q \in (DOMAIN f.files) \cup {path} |->
                            IF q = path THEN bytes ELSE f.files[q]]]

\* f.files without path.
DropFile(f, path) ==
    [f EXCEPT !.files = [q \in (DOMAIN f.files) \ {path} |-> f.files[q]],
              !.noperm = f.noperm \ {path}]

\* A directory of f by its resolved name: one that was made, the working
\* directory (the empty name), the root, or a directory above the working
\* directory ("..", "../..", and so on).
IsDirectory(f, at) ==
    \/ at \in f.dirs
    \/ at = <<>>
    \/ at = <<47>>
    \/ /\ Len(at) % 3 = 2
       /\ \A k \in 1..Len(at) : at[k] = IF k % 3 = 0 THEN 47 ELSE 46

\* The name reached from directory at by the element e of a path: "" and "."
\* stay, ".." goes to the directory above (the root has none), a name goes
\* below.
Enter(at, e) ==
    LET Above(k) ==
            IF k = 0 THEN <<>> ELSE IF k = 1 THEN <<47>> ELSE SubSeq(at, 1, k - 1)
    IN  IF e = <<>> \/ e = <<46>> THEN at
        ELSE IF e # <<46, 46>>
        THEN (IF at = <<>> \/ at = <<47>> THEN at \o e ELSE at \o <<47>> \o e)
        ELSE IF at = <<>> THEN e
        ELSE IF at = <<47>> THEN at
        ELSE IF Len(at) >= 2 /\ SubSeq(at, Len(at) - 1, Len(at)) = e
                /\ (Len(at) = 2 \/ at[Len(at) - 2] = 47)
        THEN at \o <<47>> \o e
        ELSE Above(LastSlash(at, Len(at)))

RECURSIVE Walk(_, _, _)
\* The kernel's walk along the elements segs of a path from the directory
\* at: an element is looked up in a directory only.  The name reached need
\* not exist.
Walk(f, at, segs) ==
    IF segs = <<>> THEN [err |-> "nil", at |-> at]
    ELSE IF Exists(f, at) THEN [err |-> "notdir", at |-> at]
    ELSE IF ~IsDirectory(f, at) THEN [err |-> "notexist", at |-> at]
    ELSE Walk(f, Enter(at, Head(segs)), Tail(segs))

\* The name a path resolves to in f, from the root for a path that begins
\* with a separator and else from the working directory; the empty path
\* resolves to none.
Resolve(f, path) ==
    IF path = <<>> THEN [err |-> "notexist", at |-> <<>>]
    ELSE Walk(f, IF path[1] = 47 THEN <<47>> ELSE <<>>, Split(path, 47))

\* os.Stat(path) finds a directory.
IsDir(f, path) ==
    LET Found(w) == w.err = "nil" /\ IsDirectory(f, w.at)
    IN  Found(Resolve(f, path))

\* The length of path without its trailing separators.
RECURSIVE TrimmedLen(_, _)
TrimmedLen(path, n) == IF n > 0 /\ path[n] = 47 THEN TrimmedLen(path, n - 1) ELSE n

\* os.Mkdir(path): the kernel drops trailing separators; the directory is
\* made when its name resolves and nothing has it.
Mkdir(f, path) ==
    LET Made(w) ==
            IF w.err # "nil" THEN [err |-> w.err, fs |-> f]
            ELSE IF Exists(f, w.at) \/ IsDirectory(f, w.at) THEN [err |-> "exist", fs |-> f]
            ELSE [err |-> "nil", fs |-> [f EXCEPT !.dirs = f.dirs \cup {w.at}]]
        Trimmed(n) ==
            IF n = 0 THEN [err |-> "exist", fs |-> f]
            ELSE Made(Resolve(f, SubSeq(path, 1, n)))
    IN  IF path = <<>> THEN [err |-> "notexist", fs |-> f]
        ELSE Trimmed(TrimmedLen(path, Len(path)))

RECURSIVE MkdirAll(_, _)
\* os.MkdirAll(path): nothing to do for a directory, an error for a file;
\* else MkdirAll of the parent (path up to the separator before its last
\* element, when there is one) and Mkdir(path), whose error counts only when
\* path is no directory after it.
MkdirAll(f, path) ==
    LET Made(up, m) ==
            IF m.err # "nil" /\ IsDir(up.fs, path) THEN [err |-> "nil", fs |-> up.fs]
            ELSE m
        Below(up) == IF up.err # "nil" THEN up ELSE Made(up, Mkdir(up.fs, path))
        Parent(j) ==
            Below(IF j > 1 THEN MkdirAll(f, SubSeq(path, 1, j - 1))
                  ELSE [err |-> "nil", fs |-> f])
        Stat(w) ==
            IF w.err = "nil" /\ IsDirectory(f, w.at) THEN [err |-> "nil", fs |-> f]
            ELSE IF w.err = "nil" /\ Exists(f, w.at) THEN [err |-> "notdir", fs |-> f]
            ELSE Parent(LastSlash(path, TrimmedLen(path, Len(path))))
    IN  Stat(Resolve(f, path))

\* ------------------------------------------------------------------------
\* Recording: NewRecording, LoadRecording, Save, Response
\* ------------------------------------------------------------------------

\* An http.Response: the recorded fields and the body stream.
\* Response with the body left out.
ResponseWithoutBody(r) ==
    [Status |-> r.Status, StatusCode |-> r.StatusCode, Proto |-> r.Proto,
     ProtoMajor |-> r.ProtoMajor, ProtoMinor |-> r.ProtoMinor, Header |-> r.Headers,
     Body |-> Body("reader", <<>>)]

Response(r) ==
    [Status |-> r.Status, StatusCode |-> r.StatusCode, Proto |-> r.Proto,
     ProtoMajor |-> r.ProtoMajor, ProtoMinor |-> r.ProtoMinor, Header |-> r.Headers,
     Body |-> Body("reader", r.Body)]

\* NewRecording(res): the response's body is read to its end and replaced by
\* a reader over the bytes read; an error of the read is returned.
NewRecording(res) ==
    IF res.Body.fail = "read"
    THEN [out |-> "err", rec |-> ZeroRecording,
          res |-> [res EXCEPT !.Body.pos = res.Body.pos + Len(Readable(res.Body))]]
    ELSE [out |-> "ok",
          rec |-> Recording(res.Status, res.StatusCode, res.Proto, res.ProtoMajor,
                            res.ProtoMinor, res.Header, Rest(res.Body)),
          res |-> [res EXCEPT !.Body = Body("reader", Rest(res.Body))]]

\* The body LoadRecording reads after the JSON object: the bytes from i on,
\* less one newline when they begin with one.
BodyAfter(bytes, i) ==
    IF i <= Len(bytes) /\ bytes[i] = 10 THEN SubSeq(bytes, i + 1, Len(bytes))
    ELSE SubSeq(bytes, i, Len(bytes))

ReadAfter(bytes, d) ==
    IF d.out = "err" THEN [out |-> "err", err |-> "decode", rec |-> ZeroRecording]
    ELSE IF d.out = "null" THEN [out |-> "panic", err |-> "nil", rec |-> ZeroRecording]
    ELSE [out |-> "ok", err |-> "nil", rec |-> [d.rec EXCEPT !.Body = BodyAfter(bytes, d.i)]]

\* What LoadRecording makes of the bytes of an opened file: the decoded
\* fields, and as the body everything after the JSON object less one
\* newline right after it.  Decoding the literal null leaves rec nil, and
\* the assignment to rec.Body panics.
ReadRecording(bytes) == ReadAfter(bytes, Decode(bytes))

\* os.Open(path): it fails with a not-exist error for a missing file or
\* directory on the way, with a not-a-directory error where a file stands
\* for a directory, and with a permission error for a file that cannot be
\* opened; a directory opens (dir).  The file opened keeps the bytes it
\* has: Save writes to a file only before it renames it to its path, and a
\* rename over the path leaves the file that was opened as it is.
OsOpen(f, path) ==
    LET Opened(w) ==
            IF w.err # "nil" THEN [err |-> w.err, dir |-> FALSE, bytes |-> <<>>]
            ELSE IF IsDirectory(f, w.at) THEN [err |-> "nil", dir |-> TRUE, bytes |-> <<>>]
            ELSE IF ~Exists(f, w.at) THEN [err |-> "notexist", dir |-> FALSE, bytes |-> <<>>]
            ELSE IF w.at \in f.noperm
            THEN [err |-> "permission", dir |-> FALSE, bytes |-> <<>>]
            ELSE [err |-> "nil", dir |-> FALSE, bytes |-> f.files[w.at]]
    IN  Opened(Resolve(f, path))

\* No file opened yet.
NotOpened == [err |-> "none", dir |-> FALSE, bytes |-> <<>>]

\* LoadRecording from what os.Open gave: its error, or what is read from the
\* file; the read of a directory fails.
ReadOpened(o) ==
    IF o.err # "nil" THEN [out |-> "err", err |-> o.err, rec |-> ZeroRecording]
    ELSE IF o.dir THEN [out |-> "err", err |-> "isdir", rec |-> ZeroRecording]
    ELSE ReadRecording(o.bytes)

\* LoadRecording(path).
LoadRecording(f, path) == ReadOpened(OsOpen(f, path))

\* os.IsNotExist(err) of a load's result.
IsNotExist(l) == l.out = "err" /\ l.err = "notexist"

\* The steps of Save, in order; a Save in progress is a record of its step
\* pc, its target path, its recording, its temporary file tmp, the error err
\* it holds ("nil" for none) and the step at which the file system fails
\* (fault, "none" for no failure).
SaveSteps == <<"mkdir", "temp", "encode", "write", "close", "rename">>

StartSave(rec, path, fault) ==
    [pc |-> "mkdir", path |-> path, rec |-> rec, tmp |-> <<>>, err |-> "nil",
     fault |-> fault]

\* The name ioutil.TempFile(dir, filename) creates, dir and filename being
\* the halves of path: dir and filename with a number, here n, in the place of
\* the last "*" of filename, or after filename when it has none.
TempName(path, n) ==
    LET Named(dir, file, stars) ==
            IF stars = {} THEN path \o Itoa(n)
            ELSE LET i == CHOOSE k \in stars : \A j \in stars : j <= k
                 IN  dir \o SubSeq(file, 1, i - 1) \o Itoa(n) \o SubSeq(file, i + 1, Len(file))
        Halves(sp) == Named(sp.dir, sp.file, {k \in 1..Len(sp.file) : sp.file[k] = 42})
    IN  Halves(FilepathSplit(path))

\* One step of Save on file system f; n numbers the temporary file.
\*   mkdir   os.MkdirAll(dir)
\*   temp    ioutil.TempFile(dir, filename)
\*   encode  enc.Encode(&r)
\*   write   f.Write(r.Body), only when Encode returned no error
\*   close   f.Close(), whose result is dropped
\*   rename  os.Rename(f.Name(), path), only when err is nil; it fails when
\*           path is a directory
\*   remove  os.Remove(f.Name()), only when err is not nil
\* tmp holds f.Name(); the file is the one that name resolves to.
SaveStep(st, f, n) ==
    LET failing == st.fault = st.pc
        Step(made, tmp, to) ==
          CASE st.pc = "mkdir" ->
               IF failing
               THEN [st |-> [st EXCEPT !.pc = "done", !.err = "mkdir"], fs |-> f]
               ELSE IF made.err # "nil"
               THEN [st |-> [st EXCEPT !.pc = "done", !.err = "mkdir"], fs |-> made.fs]
               ELSE [st |-> [st EXCEPT !.pc = "temp"], fs |-> made.fs]
          [] st.pc = "temp" ->
               IF failing
               THEN [st |-> [st EXCEPT !.pc = "done", !.err = "temp"], fs |-> f]
               ELSE [st |-> [st EXCEPT !.pc = "encode", !.tmp = TempName(st.path, n)],
                     fs |-> PutFile(f, Resolve(f, TempName(st.path, n)).at, <<>>)]
          [] st.pc = "encode" ->
               IF failing
               THEN [st |-> [st EXCEPT !.pc = "close", !.err = "encode"], fs |-> f]
               ELSE [st |-> [st EXCEPT !.pc = "write"],
                     fs |-> PutFile(f, tmp, f.files[tmp] \o Encode(st.rec))]
          [] st.pc = "write" ->
               IF failing
               THEN [st |-> [st EXCEPT !.pc = "close", !.err = "write"], fs |-> f]
               ELSE [st |-> [st EXCEPT !.pc = "close"],
                     fs |-> PutFile(f, tmp, f.files[tmp] \o st.rec.Body)]
          [] st.pc = "close" ->
               [st |-> [st EXCEPT !.pc = IF st.err = "nil" THEN "rename" ELSE "remove"],
                fs |-> f]
          [] st.pc = "rename" ->
               IF failing \/ to.err # "nil" \/ IsDirectory(f, to.at)
               THEN [st |-> [st EXCEPT !.pc = "remove", !.err = "rename"], fs |-> f]
               ELSE [st |-> [st EXCEPT !.pc = "done"],
                     fs |-> DropFile(PutFile([f EXCEPT !.noperm = @ \ {to.at}],
                                             to.at, f.files[tmp]), tmp)]
          [] st.pc = "remove" ->
               [st |-> [st EXCEPT !.pc = "done"], fs |-> DropFile(f, tmp)]
          [] OTHER -> [st |-> st, fs |-> f]
    IN  Step(MkdirAll(f, FilepathSplit(st.path).dir), Resolve(f, st.tmp).at,
             Resolve(f, st.path))

RECURSIVE SaveFrom(_, _, _)
\* Save run to its end from step st.
SaveFrom(st, f, n) ==
    IF st.pc = "done" THEN [st |-> st, fs |-> f]
    ELSE LET Then(nx) == SaveFrom(nx.st, nx.fs, n) IN Then(SaveStep(st, f, n))

\* Recording.Save(path), run to its end: the error returned and the file
\* system left.
Save(rec, f, path, fault, n) ==
    LET end == SaveFrom(StartSave(rec, path, fault), f, n)
    IN  [err |-> end.st.err, fs |-> end.fs]

\* ------------------------------------------------------------------------
\* The codec specification: Save a recording, then LoadRecording it
\* ------------------------------------------------------------------------

\* Strings for Status and Proto: empty, plain, ones with bytes the encoder
\* escapes (a quote and a backslash; < and a newline; backspace and form
\* feed; U+2028), one of two letters outside ASCII in UTF-8 (U+00E9 and
\* U+1F600), and one that is not UTF-8 (the byte 0xE9, Latin-1 for U+00E9).
CodecStrings ==
    {<<>>, <<79, 75>>, <<34, 92>>, <<60, 10>>, <<8, 12>>, <<226, 128, 168>>,
     <<195, 169, 240, 159, 152, 128>>, <<233>>}

\* Header maps: none, one key with any value list, with an empty list or
\* with the nil list, and two keys.
CodecHeaders ==
    {<<>>}
    \cup {<< <<kX, vl>> >> : vl \in ValueLists \cup {<<>>, NilStrings}}
    \cup {<< <<kY, <<sA>> >>, <<kX, <<sB, <<34, 10>> >> >> >>}

\* Bodies: empty, plain, beginning with one or two newlines, a newline only,
\* beginning with a space, and one that reads like a JSON object.
CodecBodies ==
    {<<>>, sA, <<10>>, <<10, 97>>, <<10, 10, 97>>, <<32, 97>>, <<123, 125, 10>>}

\* The least int, -9223372036854775808.
MinInt == [neg |-> TRUE, hi |-> 9, mid |-> 223372036, lo |-> 854775808]

\* Every combination of the strings, of the status codes 0, 404 and -1, of
\* the headers and of the bodies, and two recordings with integers of more
\* than nine digits.
CodecRecordings ==
    {Recording(st, GoInt(code), pr, GoInt(mj), GoInt(1 - mj), h, b) :
        st \in CodecStrings, code \in {0, 404, -1}, pr \in {<<>>, <<72>>},
        mj \in {0, 1}, h \in CodecHeaders, b \in CodecBodies}
    \cup {Recording(<<79, 75>>, MinInt, <<>>, GoInt(1234567890), GoInt(0), <<>>, sA),
          Recording(<<>>, [MinInt EXCEPT !.neg = FALSE, !.lo = 854775807], <<>>,
                    GoInt(0), GoInt(-1234567890), <<>>, <<>>)}

\* "d/request.json"
CodecPath == <<100, 47>> \o GenericName

\* "d//e/./r*.json": a path that is not clean, with a "*" in its file name.
UncleanPath == <<100, 47, 47, 101, 47, 46, 47, 114, 42>> \o NameSuffix

\* The paths recordings are saved to: CodecPath, UncleanPath, and
\* "request.json", a path with no directory.
CodecPaths == {CodecPath, UncleanPath, GenericName}

CDInit ==
    /\ go \in GoReleases
    /\ cd \in [pc : {"new"}, rec : CodecRecordings, path : CodecPaths, err : {"nil"},
                 loaded : {NoResult}]
    /\ fs = EmptyFS
    /\ fp = Idle /\ sv = Idle /\ tr = Idle

\* rec.Save(path)
CDSave ==
    /\ cd.pc = "new"
    /\ LET r == Save(cd.rec, fs, cd.path, "none", 1)
       IN  /\ cd' = [cd EXCEPT !.pc = "saved", !.err = r.err]
           /\ fs' = r.fs
    /\ UNCHANGED <<fp, sv, tr, go>>

\* LoadRecording(path)
CDLoad ==
    /\ cd.pc = "saved"
    /\ cd' = [cd EXCEPT !.pc = "loaded", !.loaded = LoadRecording(fs, cd.path)]
    /\ UNCHANGED <<fp, sv, tr, fs, go>>

CDNext == CDSave \/ CDLoad

SpecCodec == CDInit /\ [][CDNext]_vars

\* The multimap as a map: its set of <<key, values>> pairs.
MapOf(m) == Range(m)

\* Two recordings equal in every field, the headers compared as maps.
SameRecording(a, b) ==
    /\ a.Status = b.Status /\ a.StatusCode = b.StatusCode
    /\ a.Proto = b.Proto /\ a.ProtoMajor = b.ProtoMajor /\ a.ProtoMinor = b.ProtoMinor
    /\ MapOf(a.Headers) = MapOf(b.Headers)
    /\ a.Body = b.Body

\* C6: Save(recording, p) followed by LoadRecording(p) yields a Recording
\* equal to the original in status, status code, protocol fields, headers and
\* body bytes (only the one newline after the JSON object is stripped).
RoundTripOfRecording ==
    cd.pc = "loaded" =>
        /\ cd.err = "nil"
        /\ cd.loaded.out = "ok"
        /\ SameRecording(cd.loaded.rec, cd.rec)

RECURSIVE ValidFrom(_, _)
\* utf8.Valid of the bytes of s from i on.
ValidFrom(s, i) ==
    \/ i > Len(s)
    \/ IF s[i] < 128 THEN ValidFrom(s, i + 1)
       ELSE RuneLen(s, i) > 0 /\ ValidFrom(s, i + RuneLen(s, i))

\* What holds of C6.  Saved to a path with a directory, the recording comes
\* back equal when its status and protocol name are well-formed UTF-8 (the
\* header names and values of the recordings here all are), and else with
\* U+FFFD for each byte that begins no well-formed encoding; the store then
\* holds the directories of the path and the one file, under their resolved
\* names.  Saved to a path with no directory, Save fails at os.MkdirAll("")
\* and nothing is stored.
RoundTripOfValidStrings ==
    cd.pc = "loaded" =>
      IF cd.path = GenericName
      THEN cd.err = "mkdir" /\ fs = EmptyFS /\ IsNotExist(cd.loaded)
      ELSE
        /\ cd.err = "nil"
        /\ cd.loaded.out = "ok"
        /\ fs.dirs = IF cd.path = CodecPath THEN {<<100>>} ELSE {<<100>>, <<100, 47, 101>>}
        /\ DOMAIN fs.files = {Clean(cd.path)}
        /\ IF ValidFrom(cd.rec.Status, 1) /\ ValidFrom(cd.rec.Proto, 1)
           THEN SameRecording(cd.loaded.rec, cd.rec)
           ELSE /\ SameRecording(cd.loaded.rec, [cd.rec EXCEPT !.Status = cd.loaded.rec.Status])
                /\ cd.rec.Status = <<233>>
                /\ cd.loaded.rec.Status = ReplacementChar

\* A recording with zero scalars, no headers and a body of two newlines and
\* a letter came back from its file with that body.
RoundTripNewlineWitness ==
    /\ cd.pc = "loaded" /\ cd.loaded.out = "ok"
    /\ cd.rec.Status = <<>> /\ cd.rec.StatusCode = GoInt(0) /\ cd.rec.Headers = <<>>
    /\ cd.rec.Body = <<10, 10, 97>>
    /\ cd.loaded.rec.Body = <<10, 10, 97>>
    /\ cd.path = CodecPath
    /\ fs.files[CodecPath] = Encode(cd.rec) \o <<10, 10, 97>>

\* ------------------------------------------------------------------------
\* The store specifications: two Saves to one path at the same time, each
\* advancing by one statement whatever statement the other is at, beside a
\* reader that calls LoadRecording.  SpecStore has no failing step; in
\* SpecStoreFault each Save may have one step at which the file system fails.
\* ------------------------------------------------------------------------

Rec0 == Recording(<<79, 75>>, GoInt(200), <<>>, GoInt(0), GoInt(0), <<>>, <<48>>)
Rec1 == Recording(<<79, 75>>, GoInt(200), <<>>, GoInt(0), GoInt(0), << <<kX, <<sA>> >> >>, sA)
Rec2 == Recording(<<>>, GoInt(404), <<>>, GoInt(0), GoInt(0), <<>>, <<10, 98>>)

Savers == {1, 2}
SaverRec(i) == IF i = 1 THEN Rec1 ELSE Rec2

\* The complete bytes of the file Save writes for a recording.
FileOf(rec) == Encode(rec) \o rec.Body

\* The store with recording Rec0 saved at CodecPath by an earlier run.
OldFS == Save(Rec0, EmptyFS, CodecPath, "none", 0).fs

SVStart(faults, f) ==
    /\ sv = [savers |-> [i \in Savers |-> StartSave(SaverRec(i), CodecPath, faults[i])],
             started |-> {},
             loader |-> [pc |-> "idle", snap |-> NotOpened, got |-> NoResult, n |-> 0],
             made |-> <<>>,
             renamed |-> <<>>,
             old |-> IF Exists(f, CodecPath) THEN <<f.files[CodecPath]>> ELSE <<>>]
    /\ fs = f
    /\ fp = Idle /\ cd = Idle /\ tr = Idle

SVInit ==
    /\ go = OneRelease
    /\ \E f \in {EmptyFS, OldFS} : SVStart([i \in Savers |-> "none"], f)

SVFaultInit ==
    /\ go = OneRelease
    /\ \E f \in {EmptyFS, OldFS}, faults \in [Savers -> {"none"} \cup Range(SaveSteps)] :
         SVStart(faults, f)

\* The numbers ioutil.TempFile can put in the name of a temporary file: as
\* many as there are Saves, so that one is always free.
TempNumbers == Savers

\* FreeNumbers of a TempFile that does not look whether the name is taken.
FreeNumbersUnchecked(f, path) == TempNumbers

\* The numbers TempFile can take for a file beside path on file system f:
\* it opens the file with O_CREATE|O_EXCL and takes another number when
\* the name exists.
FreeNumbers(f, path) ==
    {n \in TempNumbers :
        LET Free(w) == w.err = "nil" /\ ~Exists(f, w.at) /\ ~IsDirectory(f, w.at)
        IN  Free(Resolve(f, TempName(path, n)))}

\* One step of the Save of saver i, whatever step the other Save is at.
\* Only TempFile looks for a name.
SVSave(i) ==
    /\ sv.savers[i].pc # "done"
    /\ \E n \in IF sv.savers[i].pc = "temp" /\ sv.savers[i].fault # "temp"
                 THEN FreeNumbers(fs, sv.savers[i].path) ELSE {0} :
         LET st == sv.savers[i]
             nx == SaveStep(st, fs, n)
         IN  /\ sv' = [sv EXCEPT !.savers[i] = nx.st,
                                 !.started = @ \cup {i},
                                 !.made = IF st.pc = "temp" /\ nx.st.err = "nil"
                                          THEN Append(@, i) ELSE @,
                                 !.renamed = IF st.pc = "rename" /\ nx.st.err = "nil"
                                             THEN Append(@, i) ELSE @]
             /\ fs' = nx.fs
    /\ UNCHANGED <<fp, cd, tr, go>>

\* The reader's os.Open: it holds the file as it is now, whatever is renamed
\* over the path later.
SVOpen ==
    /\ sv.loader.pc = "idle"
    /\ sv.loader.n < MaxLoads
    /\ sv' = [sv EXCEPT !.loader =
                [pc |-> "open", n |-> @.n + 1, got |-> NoResult,
                 snap |-> OsOpen(fs, CodecPath)]]
    /\ UNCHANGED <<fp, cd, tr, fs, go>>

\* The rest of the reader's LoadRecording, on the file it opened.
SVRead ==
    /\ sv.loader.pc = "open"
    /\ sv' = [sv EXCEPT !.loader.pc = "idle",
                        !.loader.got = ReadOpened(sv.loader.snap)]
    /\ UNCHANGED <<fp, cd, tr, fs, go>>

SVNext == (\E i \in Savers : SVSave(i)) \/ SVOpen \/ SVRead

SpecStore == SVInit /\ [][SVNext]_vars

SpecStoreFault == SVFaultInit /\ [][SVNext]_vars

\* ------------------------------------------------------------------------
\* RoundTripper.RoundTrip
\* ------------------------------------------------------------------------

\* The modes (an iota block).
ModeRecordIfMissing == 0
ModePlaybackOnly == 1
ModeRecordOnly == 2

\* "d": the base directory Dir of the clients of the model.
BaseDir == <<100>>

\* NewClient(dir): record-if-missing, StrictPath off, the default generator.
NewClient(dir) ==
    [Dir |-> dir, Mode |-> ModeRecordIfMissing, StrictPath |-> FALSE,
     PathGenerator |-> NewPathGenerator]

\* NewPlaybackOnlyClient(dir) and NewRecordOnlyClient(dir).
NewPlaybackOnlyClient(dir) == [NewClient(dir) EXCEPT !.Mode = ModePlaybackOnly]
NewRecordOnlyClient(dir) == [NewClient(dir) EXCEPT !.Mode = ModeRecordOnly]

\* Errors: none; the package's Error, with its fields Request and Response
\* (each a sequence of at most one) and the cause it wraps; or any other
\* error, returned as it came.
NoError == [type |-> "nil", cause |-> "nil", Request |-> <<>>, Response |-> <<>>]
PackageError(req, res, cause) ==
    [type |-> "Error", cause |-> cause, Request |-> <<req>>, Response |-> res]
OtherError(cause) ==
    [type |-> "other", cause |-> cause, Request |-> <<>>, Response |-> <<>>]

\* Events of one RoundTrip, in the order they happen.
FingerprintEvent(out) == [op |-> "fingerprint", path |-> <<>>, out |-> out]
LoadEvent(path, l) ==
    [op |-> "load", path |-> path, out |-> IF l.out = "err" THEN l.err ELSE l.out]
TransportEvent(body, out) == [op |-> "transport", path |-> body, out |-> out]
SaveEvent(path, err) == [op |-> "save", path |-> path, out |-> err]

\* What RoundTrip returns and leaves: out is "ok", "err" or "panic", res the
\* response (a sequence of at most one), err the error, fs the file system,
\* trace the events.
Return(out, res, err, f, trace) ==
    [out |-> out, res |-> res, err |-> err, fs |-> f, trace |-> trace]

\* A call of RoundTrip that has not run a statement yet.  pc is the
\* statement the call is at, rt the client, req the request, sent the
\* request as the fingerprint left it, path and genericPath the two paths,
\* given the answer of the wrapped RoundTripper
\* (empty for an error, and before it is called), fault the step at which
\* the file system failed the Save, res the response after NewRecording, save
\* the Save in progress, ret what the call returned, trace its events.
StartCall(rt, req) ==
    [pc |-> "call", rt |-> rt, req |-> req, sent |-> req, path |-> <<>>,
     genericPath |-> <<>>, given |-> <<>>, fault |-> "none",
     res |-> <<>>, save |-> StartSave(ZeroRecording, <<>>, "none"),
     ret |-> NoResult, trace |-> <<>>]

\* The call returns.
Returned(c, out, res, err, trace) ==
    [c EXCEPT !.pc = "done", !.ret = [out |-> out, res |-> res, err |-> err],
              !.trace = trace]

\* AfterSave with a second attempt after a Save that failed.
AfterSaveRetries(c) ==
    IF c.save.err # "nil"
    THEN Returned(c, "err", <<>>, PackageError(c.sent, c.res, c.save.err),
                  Append(Append(c.trace, SaveEvent(c.path, c.save.err)),
                         SaveEvent(c.path, c.save.err)))
    ELSE Returned(c, "ok", c.res, NoError, Append(c.trace, SaveEvent(c.path, "nil")))

\* Lines 76-79: rec.Save(path) has returned; the response or the error.
AfterSave(c) ==
    IF c.save.err # "nil"
    THEN Returned(c, "err", <<>>, PackageError(c.sent, c.res, c.save.err),
                  Append(c.trace, SaveEvent(c.path, c.save.err)))
    ELSE Returned(c, "ok", c.res, NoError, Append(c.trace, SaveEvent(c.path, "nil")))

\* Lines 72-76: NewRecording(res) has read the body of the response; its
\* error is returned, or rec.Save(path) begins.
AfterTransport(c, nr, trace) ==
    IF nr.out # "ok"
    THEN Returned(c, "err", <<>>, PackageError(c.sent, <<nr.res>>, "newrecording"), trace)
    ELSE [c EXCEPT !.pc = "save", !.res = <<nr.res>>,
                   !.save = StartSave(nr.rec, c.path, "none"), !.trace = trace]

\* CallTransport with the error of the wrapped RoundTripper wrapped in the
\* package's Error.
CallTransportWrapsError(c, env) ==
    IF env.transport = <<>>
    THEN Returned(c, "err", <<>>, PackageError(c.sent, <<>>, "transport"),
                  Append(c.trace, TransportEvent(Rest(c.sent.Body), "err")))
    ELSE AfterTransport([c EXCEPT !.given = env.transport],
                        NewRecording(env.transport[1]),
                        Append(c.trace, TransportEvent(Rest(c.sent.Body), "ok")))

\* Lines 68-71: the wrapped RoundTripper is called with the request as the
\* fingerprint left it and answers as env tells; its error is returned as
\* it is.
CallTransport(c, env) ==
    IF env.transport = <<>>
    THEN Returned(c, "err", <<>>, OtherError("transport"),
                  Append(c.trace, TransportEvent(Rest(c.sent.Body), "err")))
    ELSE AfterTransport([c EXCEPT !.given = env.transport],
                        NewRecording(env.transport[1]),
                        Append(c.trace, TransportEvent(Rest(c.sent.Body), "ok")))

\* AfterLoad with the playback-only test left out: a missing recording goes
\* on to the wrapped RoundTripper in every mode.
AfterLoadFallsBack(c, l, trace) ==
    IF l.out = "ok" THEN Returned(c, "ok", <<Response(l.rec)>>, NoError, trace)
    ELSE IF l.out = "panic" THEN Returned(c, "panic", <<>>, NoError, trace)
    ELSE IF ~IsNotExist(l)
    THEN Returned(c, "err", <<>>, OtherError(l.err), trace)
    ELSE [c EXCEPT !.pc = "transport", !.trace = trace]

\* AfterLoad with the not-exist test left out: outside playback-only mode any
\* error of the load goes on to the wrapped RoundTripper.
AfterLoadRecordsOnAnyError(c, l, trace) ==
    IF l.out = "ok" THEN Returned(c, "ok", <<Response(l.rec)>>, NoError, trace)
    ELSE IF l.out = "panic" THEN Returned(c, "panic", <<>>, NoError, trace)
    ELSE IF c.rt.Mode = ModePlaybackOnly
    THEN Returned(c, "err", <<>>, OtherError(l.err), trace)
    ELSE [c EXCEPT !.pc = "transport", !.trace = trace]

\* Lines 60-66 for the result l of the lookup: a recording that loaded is
\* returned as a response; an error is returned in playback-only mode or
\* when it is not a not-exist error; else the call goes on to the wrapped
\* RoundTripper.
AfterLoad(c, l, trace) ==
    IF l.out = "ok" THEN Returned(c, "ok", <<Response(l.rec)>>, NoError, trace)
    ELSE IF l.out = "panic" THEN Returned(c, "panic", <<>>, NoError, trace)
    ELSE IF c.rt.Mode = ModePlaybackOnly \/ ~IsNotExist(l)
    THEN Returned(c, "err", <<>>, OtherError(l.err), trace)
    ELSE [c EXCEPT !.pc = "transport", !.trace = trace]

\* AfterFirstLoad with the test of StrictPath left out.
AfterFirstLoadIgnoresStrict(c, l) ==
    IF c.genericPath # c.path /\ IsNotExist(l)
    THEN [c EXCEPT !.pc = "loadGeneric", !.trace = Append(@, LoadEvent(c.path, l))]
    ELSE AfterLoad(c, l, Append(c.trace, LoadEvent(c.path, l)))

\* Line 57 for the result l of LoadRecording(path): the second load, at the
\* generic path, is made or not.
AfterFirstLoad(c, l) ==
    IF ~c.rt.StrictPath /\ c.genericPath # c.path /\ IsNotExist(l)
    THEN [c EXCEPT !.pc = "loadGeneric", !.trace = Append(@, LoadEvent(c.path, l))]
    ELSE AfterLoad(c, l, Append(c.trace, LoadEvent(c.path, l)))

\* WithPaths with the mode test left out: the lookup is made in every mode.
WithPathsAlwaysLookup(c) == [c EXCEPT !.pc = "load"]

\* WithPaths with the lookup left out: every mode records.
WithPathsNeverLookup(c) == [c EXCEPT !.pc = "transport"]

\* Line 55: the lookup, unless the mode is record-only.
WithPaths(c) ==
    IF c.rt.Mode # ModeRecordOnly THEN [c EXCEPT !.pc = "load"]
    ELSE [c EXCEPT !.pc = "transport"]

\* Lines 47-53 for the result rp of RecordingPath(req): the error of the
\* fingerprint, or the two paths under Dir.
AfterFingerprint(c, rp) ==
    IF rp.out = "panic"
    THEN Returned(c, "panic", <<>>, NoError, <<FingerprintEvent("panic")>>)
    ELSE IF rp.out = "err"
    THEN Returned(c, "err", <<>>,
                  PackageError([c.req EXCEPT !.Body = rp.body], <<>>, rp.err),
                  <<FingerprintEvent("err")>>)
    ELSE WithPaths([c EXCEPT !.sent = [c.req EXCEPT !.Body = rp.body],
                             !.path = FilepathJoin(<<c.rt.Dir, Path(rp)>>),
                             !.genericPath = FilepathJoin(<<c.rt.Dir, GenericPath(rp)>>),
                             !.trace = <<FingerprintEvent("ok")>>])

\* What the world does during one RoundTrip: transport is the response of
\* the wrapped RoundTripper (empty for an error), fault the step at which
\* Save fails, n the number of the temporary file.
Env(transport, fault) == [transport |-> transport, fault |-> fault, n |-> 1]

\* The steps of Save that make the temporary file: MkdirAll, TempFile,
\* enc.Encode(&r), f.Write(r.Body) and f.Close().
MakeSteps == {"mkdir", "temp", "encode", "write", "close"}

RECURSIVE SaveMake(_, _, _)
\* The steps of Save that make the temporary file, from step st on; n is
\* the number TempFile takes.
SaveMake(st, f, n) ==
    IF st.pc \notin MakeSteps THEN [st |-> st, fs |-> f]
    ELSE LET Then(nx) == SaveMake(nx.st, nx.fs, n) IN Then(SaveStep(st, f, n))

\* The steps of Save that the statement beginning with step pc is made of.
StatementSteps(pc) == IF pc \in MakeSteps THEN MakeSteps ELSE {pc}

\* Save st, whose next statement is one the file system fails at step
\* fault, if that is a step of it; a Save meets one failure at most.
Struck(st, fault) ==
    IF st.fault = "none" /\ fault \in StatementSteps(st.pc)
    THEN [st EXCEPT !.fault = fault] ELSE st

\* One statement of call c on file system f: the call and the file system
\* it leaves.  A statement ends where the call has read or changed what
\* another call can see, or where it waits:
\*   call          lines 47-57: the fingerprint, the paths, the mode test,
\*                 and in a lookup mode LoadRecording(path) and line 57
\*   loadGeneric   LoadRecording(genericPath), line 58, and lines 60-66
\*   transport     lines 68-76: the wait in the wrapped RoundTripper, its
\*                 answer, NewRecording, and of rec.Save(path) the making
\*                 of the temporary file (MkdirAll to Close)
\*   save          the rest of rec.Save(path): Rename, or Remove; and when
\*                 Save has returned, lines 76-79
\* The fingerprint reads the request only.  A LoadRecording is one
\* statement: what it reads after os.Open is the file it opened, which no
\* Save changes (Save writes another file and renames it).  The temporary
\* file is one statement with the answer before it: no call reads it or
\* the directories before the rename, and TempFile takes a name that is
\* free.  The store specification has all the steps of Save apart.
\* env is what the wrapped RoundTripper answers and the step of Save at
\* which the file system fails, n the number TempFile takes.
CallStep(c, f, env, n) ==
    LET Saved(d, nx) == [c |-> [d EXCEPT !.save = nx.st, !.fault = nx.st.fault], fs |-> nx.fs]
        Generic(l) == AfterLoad(c, l, Append(c.trace, LoadEvent(c.genericPath, l)))
        Looked(d) == IF d.pc = "load" THEN AfterFirstLoad(d, LoadRecording(f, d.path))
                     ELSE d
        Answered(d) == IF d.pc = "save"
                       THEN Saved(d, SaveMake(Struck(d.save, env.fault), f, n))
                       ELSE [c |-> d, fs |-> f]
    IN  CASE c.pc = "call" ->
               [c |-> Looked(AfterFingerprint(c, RecordingPath(c.rt.PathGenerator, c.req))),
                fs |-> f]
          [] c.pc = "loadGeneric" ->
               [c |-> Generic(LoadRecording(f, c.genericPath)), fs |-> f]
          [] c.pc = "transport" ->
               Answered(CallTransport(c, env))
          [] c.pc = "save" /\ c.save.pc # "done" ->
               Saved(c, SaveStep(Struck(c.save, env.fault), f, n))
          [] c.pc = "save" /\ c.save.pc = "done" ->
               [c |-> AfterSave(c), fs |-> f]
          [] OTHER -> [c |-> c, fs |-> f]

RECURSIVE RunCall(_, _, _)
\* Call c run to its end with no other call beside it.
RunCall(c, f, env) ==
    IF c.pc = "done" THEN Return(c.ret.out, c.ret.res, c.ret.err, f, c.trace)
    ELSE LET Then(nx) == RunCall(nx.c, nx.fs, env) IN Then(CallStep(c, f, env, env.n))

\* RoundTripper.RoundTrip(req) on file system f, run from its first
\* statement to its return with nothing else touching the store.
RoundTrip(rt, f, req, env) == RunCall(StartCall(rt, req), f, env)

\* StringSet.Add(args...) and StringSet.Del(args...).  (A StringSet is a
\* map: Add on one that is nil panics in the caller, Del on it does
\* nothing.  NewPathGenerator leaves OmitQuery nil and makes OmitHeaders.)
StringSetAdd(ss, args) == ss \cup args
StringSetDel(ss, args) == ss \ args

\* ------------------------------------------------------------------------
\* The transport specifications: clients over one directory whose
\* RoundTrip is called by two goroutines.  RoundTrip holds no lock: a call
\* advances statement by statement, and the other goroutine may run between
\* any two statements and while the call waits for the wrapped
\* RoundTripper.  Between calls, Spec lets the client be replaced by one of
\* another mode, StrictPath be set, names be added to and deleted from
\* OmitHeaders, and a stored file be made unreadable or be edited by hand
\* (a write to a field of the client while a call reads it is a data race,
\* which the callers of the model do not make); SpecRIM has one
\* record-if-missing client and nothing else touching the directory.
\* ------------------------------------------------------------------------

MaxEdits == 1

\* The number of calls of a behaviour that begin while another call is in
\* progress.
MaxOverlap == 1

Header1(k, vl) == << <<k, vl>> >>

\* Requests to one method and URL path: with nothing to tell them apart,
\* with a header, a body or a query parameter, with only an excluded header,
\* and with bodies the fingerprint fails on.
ReqBare == Request(sGET, <<>>, <<>>, NoBody)
ReqXa == Request(sGET, <<>>, Header1(kX, <<sA>>), NoBody)
ReqXab == Request(sGET, <<>>, Header1(kX, <<sAB>>), NoBody)
ReqXaXb == Request(sGET, <<>>, Header1(kX, <<sA, sB>>), NoBody)
ReqBody == Request(sGET, <<>>, <<>>, Body("getbody", sA))
ReqQuery == Request(sGET, Header1(kQ, <<sA>>), <<>>, NoBody)
ReqDate == Request(sGET, <<>>, Header1(kDate, <<sA>>), NoBody)
ReqPlain == Request(sGET, <<>>, <<>>, Body("plain", sA))
ReqBroken == Request(sGET, <<>>, <<>>, FailingBody("getbody", sA, "getbody", 0))

\* "/../../../../x": a URL path that climbs four directories.
sPathUp == <<47, 46, 46, 47, 46, 46, 47, 46, 46, 47, 46, 46, 47, 120>>

\* The request without anything to tell it apart, to the climbing URL path.
ReqUp == [ReqBare EXCEPT !.Path = sPathUp]

\* The request with a body "ab" that has GetBody and whose read fails after
\* the first byte.
ReqHalfRead == Request(sGET, <<>>, <<>>, FailingBody("getbody", sAB, "read", 1))

TRequests ==
    {ReqBare, ReqXa, ReqXab, ReqXaXb, ReqBody, ReqQuery, ReqDate, ReqPlain, ReqBroken,
     ReqUp, ReqHalfRead}

\* The pairs of requests a behaviour sends.
PairsOf(S) == {rs \in SUBSET S : Cardinality(rs) = 2}

\* Responses of the server: a 200 with a header and a body, a 404 whose
\* body begins with a newline, and one whose body fails to be read.
HttpResponse(status, code, header, body) ==
    [Status |-> status, StatusCode |-> GoInt(code), Proto |-> <<>>, ProtoMajor |-> GoInt(1),
     ProtoMinor |-> GoInt(1), Header |-> header, Body |-> body]
RespA == HttpResponse(<<79, 75>>, 200, Header1(kX, <<sA>>), Body("reader", sA))
RespB == HttpResponse(<<>>, 404, <<>>, Body("reader", <<10, 98>>))
RespBroken == HttpResponse(<<79, 75>>, 200, <<>>, FailingBody("reader", sAB, "read", 1))
TResponses == {RespA, RespB, RespBroken}

\* What the world does during one RoundTrip: the wrapped RoundTripper fails
\* or answers, and Save runs through or has a step at which the file system
\* fails.
Answers == {<<>>} \cup {<<res>> : res \in TResponses}
SaveFaults == {"rename", "close"}

\* A response as its receiver sees it: the fields and the bytes of the body.
Seen(res) ==
    [Status |-> res.Status, StatusCode |-> res.StatusCode, Proto |-> res.Proto,
     ProtoMajor |-> res.ProtoMajor, ProtoMinor |-> res.ProtoMinor,
     Header |-> MapOf(res.Header), Body |-> Rest(res.Body)]

\* The number of events of a trace that are of kind op.
Count(trace, op) == Cardinality({i \in DOMAIN trace : trace[i].op = op})

\* Has the RoundTrip put a recording in place: it called the transport and
\* Save returned no error.
Recorded(r) == r.out = "ok" /\ Count(r.trace, "save") = 1

\* The goroutines that call RoundTrip.
Callers == {1, 2}

\* A goroutine that is in no call, and one that begins call c.  alone tells
\* whether no other call has been in progress since the call began, wrote
\* whether a statement of the call has changed the file system; of a call
\* that began with no other in progress, before is the file system when it
\* began (f) and prior the response recorded for its request before, if any.
NoCall == [c |-> Idle, before |-> EmptyFS, prior |-> <<>>, alone |-> TRUE, wrote |-> FALSE]
Calling(c, f, prior, alone) ==
    [c |-> c, before |-> IF alone THEN f ELSE EmptyFS,
     prior |-> IF alone THEN prior ELSE <<>>, alone |-> alone, wrote |-> FALSE]

\* The record kept of the RoundTrip that has just returned, until something
\* else happens: its request and client settings, whether the wrapped
\* RoundTripper was failing (it fails, or would have failed had the call
\* come to it), the response that RoundTripper gave if it was called, the
\* step of Save that failed if Save was called ("none" for no failure),
\* what RoundTrip returned, its events, the file system it began with and
\* whether it changed it, the response recorded for the request before (if
\* any), and whether the call ran with no other beside it.
LastOf(r, offline) ==
    [req |-> r.c.req, mode |-> r.c.rt.Mode, strict |-> r.c.rt.StrictPath,
     offline |-> offline,
     given |-> r.c.given, fault |-> r.c.fault,
     out |-> r.c.ret.out, res |-> r.c.ret.res, err |-> r.c.ret.err,
     trace |-> r.c.trace, before |-> r.before, wrote |-> r.wrote,
     prior |-> r.prior, alone |-> r.alone]

TStart(rt, reqs) ==
    /\ go = OneRelease
    /\ tr = [pc |-> "run", rt |-> rt, reqs |-> reqs, calls |-> 0, edits |-> 0,
             overlaps |-> 0, run |-> [g \in Callers |-> NoCall],
             last |-> NoResult,
             hist |-> [q \in TRequests \cup reqs |-> <<>>],
             order |-> <<>>]
    /\ fs = EmptyFS
    /\ fp = Idle /\ cd = Idle /\ sv = Idle

\* No call is in progress.
Quiet == \A g \in Callers : tr.run[g].c.pc = "idle"

\* Was the wrapped RoundTripper failing during call c, which has returned:
\* as it showed when the call came to it, and either way when it did not.
Offline(c) ==
    IF Count(c.trace, "transport") = 1 THEN {c.given = <<>>} ELSE BOOLEAN

\* Goroutine g runs one statement of its call r, which leaves the call and
\* the file system as nx; began is 1 for the first statement of a call.  A
\* rename that succeeded has put the recording of the request in place; a
\* call that returns goes on record.
TStep(g, r, nx, began) ==
    LET busy == \E h \in Callers \ {g} : tr.run[h].c.pc # "idle"
        mine == [r EXCEPT !.c = nx.c, !.alone = @ /\ ~busy, !.wrote = @ \/ nx.fs # fs]
        renamed == r.c.pc = "save" /\ r.c.save.pc = "rename" /\ nx.c.save.pc = "done"
    IN  /\ \E offline \in IF nx.c.pc = "done" THEN Offline(nx.c) ELSE {FALSE} :
              tr' = [tr EXCEPT
                       !.calls = @ + began,
                       !.overlaps = IF began = 1 /\ busy THEN @ + 1 ELSE @,
                       !.run = [h \in Callers |->
                                  IF h # g
                                  THEN [tr.run[h] EXCEPT !.alone = tr.run[h].c.pc = "idle"]
                                  ELSE IF nx.c.pc = "done" THEN NoCall ELSE mine],
                       !.last = IF nx.c.pc = "done" THEN LastOf(mine, offline) ELSE NoResult,
                       !.hist[r.c.req] = IF renamed THEN <<Seen(nx.c.res[1])>> ELSE @,
                       !.order = IF renamed /\ tr.hist[r.c.req] = <<>>
                                 THEN Append(@, r.c.req) ELSE @]
        /\ fs' = nx.fs
        /\ UNCHANGED <<fp, cd, sv, go>>

\* The number TempFile takes for a recording at path on file system f: the
\* least of the numbers whose name is free once MkdirAll has made the
\* directories.  The names differ in the number only, and nothing reads it:
\* the store specification has TempFile take any free number.
NumberFor(f, path) ==
    LET Least(ns) == IF ns = {} THEN {} ELSE {CHOOSE n \in ns : \A m \in ns : n <= m}
        Made(m) == IF m.err # "nil" THEN {0} ELSE Least(FreeNumbers(m.fs, path))
    IN  Made(MkdirAll(f, FilepathSplit(path).dir))

\* No goroutine but g is in a call.
Quiet1(g) == \A h \in Callers \ {g} : tr.run[h].c.pc = "idle"

\* The steps of the statement beginning with step pc at which the file
\* system may fail the Save of goroutine g: one in a Save, and in the model
\* none in a call that has had another beside it (Saves that fail beside
\* each other are in the store specification).
FaultsFor(g, pc) ==
    IF tr.run[g].alone /\ Quiet1(g) /\ tr.run[g].c.save.fault = "none"
    THEN SaveFaults \cap StatementSteps(pc) ELSE {}

\* The statements below are the ones goroutine g can run next, each with
\* what the world does during it: the call r it belongs to, the answer of
\* the wrapped RoundTripper and the step at which the file system fails
\* (env), the number TempFile takes (n), and whether it begins a call.
Statement(r, env, n, began) == [r |-> r, env |-> env, n |-> n, began |-> began]

\* Goroutine g calls RoundTrip(req) on the client: lines 47-57.  The call
\* is made by the first goroutine that is in no call.
TCall(g) ==
    IF /\ tr.calls < MaxCalls
       /\ tr.run[g].c.pc = "idle"
       /\ \A h \in Callers : h < g => tr.run[h].c.pc # "idle"
       /\ Quiet \/ tr.overlaps < MaxOverlap
    THEN {Statement(Calling(StartCall(tr.rt, req), fs, tr.hist[req], Quiet),
                    Env(<<>>, "none"), 0, 1) : req \in tr.reqs}
    ELSE {}

\* LoadRecording(genericPath) and lines 60-66.
TLoad(g) ==
    IF tr.run[g].c.pc = "loadGeneric"
    THEN {Statement(tr.run[g], Env(<<>>, "none"), 0, 0)}
    ELSE {}

\* Lines 68-76: the wrapped RoundTripper answers or fails, NewRecording
\* reads the body of its response, and Save makes the temporary file.
TTransport(g) ==
    IF tr.run[g].c.pc = "transport"
    THEN {Statement(tr.run[g], Env(answer, fault), n, 0) :
              answer \in Answers, n \in NumberFor(fs, tr.run[g].c.path),
              fault \in {"none"} \cup FaultsFor(g, "mkdir")}
    ELSE {}

\* The Rename of rec.Save(path) (line 76), or its Remove.
TSave(g) ==
    IF tr.run[g].c.pc = "save" /\ tr.run[g].c.save.pc # "done"
    THEN {Statement(tr.run[g], Env(<<>>, fault), 0, 0) :
              fault \in {"none"} \cup FaultsFor(g, tr.run[g].c.save.pc)}
    ELSE {}

\* Lines 76-79: Save has returned; the response or the error.
TReturn(g) ==
    IF tr.run[g].c.pc = "save" /\ tr.run[g].c.save.pc = "done"
    THEN {Statement(tr.run[g], Env(<<>>, "none"), 0, 0)}
    ELSE {}

\* One statement of a RoundTrip (lines 46-80) by one of the goroutines,
\* whatever statement the call of the other is at.
TRoundTrip ==
    \E g \in Callers :
        \E s \in TCall(g) \cup TLoad(g) \cup TTransport(g) \cup TSave(g) \cup TReturn(g) :
            TStep(g, s.r, CallStep(s.r.c, fs, s.env, s.n), s.began)

\* A client of another mode is made over the same directory, for the calls
\* still to come.
TNewClient ==
    /\ tr.calls < MaxCalls
    /\ Quiet
    /\ \E rt \in {NewClient(BaseDir), NewPlaybackOnlyClient(BaseDir),
                  NewRecordOnlyClient(BaseDir)} :
         /\ rt # tr.rt
         /\ tr' = [tr EXCEPT !.rt = rt, !.last = NoResult]
    /\ UNCHANGED <<fp, cd, sv, fs, go>>

\* The StrictPath field is set.
TSetStrictPath ==
    /\ tr.calls < MaxCalls
    /\ Quiet
    /\ ~tr.rt.StrictPath
    /\ tr' = [tr EXCEPT !.rt.StrictPath = TRUE, !.last = NoResult]
    /\ UNCHANGED <<fp, cd, sv, fs, go>>

\* The names of the headers the requests of the behaviour carry.
HeaderNames == UNION {Range(Keys(q.Header)) : q \in tr.reqs}

\* OmitHeaders.Add(name) or OmitHeaders.Del(name) on the generator of the
\* client, for the name of a header.
TOmitHeaders ==
    /\ tr.calls < MaxCalls
    /\ Quiet
    /\ \E name \in HeaderNames :
         \E ss \in {StringSetAdd(tr.rt.PathGenerator.OmitHeaders, {name}),
                    StringSetDel(tr.rt.PathGenerator.OmitHeaders, {name})} :
            /\ ss # tr.rt.PathGenerator.OmitHeaders
            /\ tr.edits < MaxEdits
            /\ tr' = [tr EXCEPT !.rt.PathGenerator.OmitHeaders = ss, !.edits = @ + 1,
                                !.last = NoResult]
    /\ UNCHANGED <<fp, cd, sv, fs, go>>

\* A stored file is made unreadable.
TChmod ==
    /\ tr.calls < MaxCalls
    /\ Quiet
    /\ tr.edits < MaxEdits
    /\ \E path \in DOMAIN fs.files :
         fs' = [fs EXCEPT !.noperm = @ \cup {path}]
    /\ tr' = [tr EXCEPT !.edits = @ + 1, !.last = NoResult]
    /\ UNCHANGED <<fp, cd, sv, go>>

\* A stored file is edited by hand and is no longer a JSON object.
TEdit ==
    /\ tr.calls < MaxCalls
    /\ Quiet
    /\ tr.edits < MaxEdits
    /\ \E path \in DOMAIN fs.files, bytes \in {<<123>>, <<110, 117, 108, 108>>} :
         fs' = PutFile(fs, path, bytes)
    /\ tr' = [tr EXCEPT !.edits = @ + 1, !.last = NoResult]
    /\ UNCHANGED <<fp, cd, sv, go>>

\* The pairs of requests sent to a client whose mode changes: one without a
\* checksum and one with (each with a header that OmitHeaders can take in
\* or leave out), two with different checksums, and each kind with a
\* request whose fingerprint cannot be computed.
ModePairs ==
    {{ReqDate, ReqXa}, {ReqXa, ReqBody}, {ReqBody, ReqPlain}, {ReqBare, ReqBroken}}

Init == \E reqs \in ModePairs : TStart(NewClient(BaseDir), reqs)

Next == TRoundTrip \/ TNewClient \/ TSetStrictPath \/ TOmitHeaders \/ TChmod \/ TEdit

Spec == Init /\ [][Next]_vars

RIMInit == \E reqs \in PairsOf(TRequests) : TStart(NewClient(BaseDir), reqs)

RIMNext == TRoundTrip

SpecRIM == RIMInit /\ [][RIMNext]_vars

\* The generator with a body hook, and the record-if-missing client that
\* uses it.
MungeGenerator == [NewPathGenerator EXCEPT !.MungeRequestBody = "digits"]
MungeClient == [NewClient(BaseDir) EXCEPT !.PathGenerator = MungeGenerator]

\* Requests with bodies "a1", "a2" and "b1" (the hook takes the digit out),
\* "a1" in a seekable body and in one that is neither seekable nor has
\* GetBody, "1" and "a", and the request without a body.
ReqA1 == Request(sGET, <<>>, <<>>, Body("getbody", <<97, 49>>))
ReqA2 == Request(sGET, <<>>, <<>>, Body("getbody", <<97, 50>>))
ReqB1 == Request(sGET, <<>>, <<>>, Body("getbody", <<98, 49>>))
ReqSeekA1 == Request(sGET, <<>>, <<>>, Body("seeker", <<97, 49>>))
ReqPlainA1 == Request(sGET, <<>>, <<>>, Body("plain", <<97, 49>>))
ReqDigit == Request(sGET, <<>>, <<>>, Body("getbody", <<49>>))
MungeRequests ==
    {ReqBare, ReqBody, ReqA1, ReqA2, ReqB1, ReqSeekA1, ReqPlainA1, ReqDigit}

MungeInit == \E reqs \in PairsOf(MungeRequests) : TStart(MungeClient, reqs)

SpecMunge == MungeInit /\ [][RIMNext]_vars

\* ------------------------------------------------------------------------
\* Properties of RoundTrip in its three modes
\* ------------------------------------------------------------------------

\* The last RoundTrip, when there is one on record.
Called == tr.last.out # "none"

\* The results of the loads of a trace, in order.
Loads(trace) == SelectSeq(trace, LAMBDA e : e.op = "load")

\* The fingerprint of the last RoundTrip was computed.
Fingerprinted == tr.last.trace[1].out = "ok"

\* No recording was found by the last RoundTrip: it looked, and every path
\* it looked at had no file.
NothingFound ==
    /\ Loads(tr.last.trace) # <<>>
    /\ \A i \in DOMAIN Loads(tr.last.trace) : Loads(tr.last.trace)[i].out = "notexist"

\* C1: in playback-only mode, whatever the request and whatever the store
\* holds, RoundTrip does not call the wrapped RoundTripper and leaves the
\* file system as it was; when no file is found at the path(s) looked at it
\* returns no response and the not-exist error of the load, as it came.
PlaybackOnlyNeverRecords ==
    (Called /\ tr.last.mode = ModePlaybackOnly) =>
        /\ Count(tr.last.trace, "transport") = 0
        /\ Count(tr.last.trace, "save") = 0
        /\ ~tr.last.wrote
        /\ NothingFound =>
              /\ tr.last.out = "err"
              /\ tr.last.res = <<>>
              /\ tr.last.err = OtherError("notexist")

\* A playback-only RoundTrip over a store that holds a recording, though not
\* for this request: both paths were looked at and the error came back.
PlaybackMissWitness ==
    /\ Called /\ tr.last.mode = ModePlaybackOnly
    /\ DOMAIN fs.files # {}
    /\ Len(Loads(tr.last.trace)) = 2
    /\ NothingFound
    /\ ~tr.last.offline
    /\ tr.last.err = OtherError("notexist")

\* The bytes of the file Save writes for response res.
FileOfResponse(res) ==
    Encode(Recording(res.Status, res.StatusCode, res.Proto, res.ProtoMajor,
                     res.ProtoMinor, res.Header, <<>>)) \o Rest(res.Body)

\* The generators a client of Spec or SpecRIM can have: the default one
\* with X added to OmitHeaders or not, and Date deleted from it or not.
TGenerators ==
    {[NewPathGenerator EXCEPT
        !.OmitHeaders = StringSetDel(StringSetAdd(DefaultOmitHeaders, add), del)] :
       add \in SUBSET {kX}, del \in SUBSET {kDate}}

\* The fingerprints of the requests under these generators, computed once,
\* and the fingerprint of request req under the generator of the client.
Fingerprints == [p \in TGenerators, q \in TRequests |-> RecordingPath(p, q)]
FingerprintOf(req) ==
    IF req \in TRequests /\ tr.rt.PathGenerator \in TGenerators
    THEN Fingerprints[tr.rt.PathGenerator, req]
    ELSE RecordingPath(tr.rt.PathGenerator, req)

\* The checksum-qualified path of request req under the client's directory.
PathOf(req) == FilepathJoin(<<tr.rt.Dir, Path(FingerprintOf(req))>>)

\* C2 as stated: in record-only mode RoundTrip loads nothing; once the
\* fingerprint is computed it calls the wrapped RoundTripper exactly once,
\* whether or not the request has a recording, and after a RoundTrip that
\* succeeded the file at the checksum-qualified path is the one of the
\* response just given (a file written for the request before is replaced).
RecordOnlyAlwaysRecords ==
    (Called /\ tr.last.mode = ModeRecordOnly) =>
        /\ Loads(tr.last.trace) = <<>>
        /\ Fingerprinted =>
              /\ Count(tr.last.trace, "transport") = 1
              /\ tr.last.out = "ok" =>
                    /\ tr.last.given # <<>>
                    /\ Seen(tr.last.res[1]) = Seen(tr.last.given[1])
                    /\ Exists(fs, PathOf(tr.last.req))
                    /\ fs.files[PathOf(tr.last.req)] = FileOfResponse(tr.last.given[1])

\* C2 amended: in record-only mode RoundTrip loads nothing; once the
\* fingerprint is computed it calls the wrapped RoundTripper exactly once,
\* whether or not the request has a recording; a RoundTrip that succeeded
\* returns the response just given and leaves a file at the
\* checksum-qualified path, and when no other RoundTrip ran beside it that
\* file is the one of the response just given (a file written for the
\* request before is replaced).
RecordOnlyRecordsInTurn ==
    (Called /\ tr.last.mode = ModeRecordOnly) =>
        /\ Loads(tr.last.trace) = <<>>
        /\ Fingerprinted =>
              /\ Count(tr.last.trace, "transport") = 1
              /\ tr.last.out = "ok" =>
                    /\ tr.last.given # <<>>
                    /\ Seen(tr.last.res[1]) = Seen(tr.last.given[1])
                    /\ Exists(fs, PathOf(tr.last.req))
                    /\ tr.last.alone =>
                          fs.files[PathOf(tr.last.req)] = FileOfResponse(tr.last.given[1])

\* A record-only RoundTrip of a request recorded before with another
\* response, no other RoundTrip beside it: the file now holds the new one.
RecordOnlyOverwriteWitness ==
    /\ Called /\ tr.last.mode = ModeRecordOnly /\ tr.last.out = "ok"
    /\ tr.last.alone
    /\ tr.last.prior # <<>>
    /\ tr.last.prior[1] # Seen(tr.last.given[1])
    /\ fs.files[PathOf(tr.last.req)] = FileOfResponse(tr.last.given[1])

\* The last RoundTrip was answered from the store.
Replayed == tr.last.out = "ok" /\ Count(tr.last.trace, "transport") = 0

\* Every RoundTrip so far began when no other was in progress.
InTurn == tr.overlaps = 0

\* C3 as stated: in record-if-missing mode, a RoundTrip that finds no file
\* for its request calls the wrapped RoundTripper once and, when that answers and
\* the response is saved, returns that response and leaves it in the file
\* at the checksum-qualified path, whatever its status code; a RoundTrip of
\* a request recorded before returns a response equal to the recorded one
\* in every field and in the bytes of the body, without calling the wrapped
\* RoundTripper, also when that would now fail.
RecordIfMissingReplays ==
    Called =>
        /\ (Fingerprinted /\ NothingFound) =>
              /\ Count(tr.last.trace, "transport") = 1
              /\ tr.last.out = "ok" =>
                    /\ Seen(tr.last.res[1]) = Seen(tr.last.given[1])
                    /\ fs.files[PathOf(tr.last.req)] = FileOfResponse(tr.last.given[1])
                    /\ tr.hist[tr.last.req] = <<Seen(tr.last.given[1])>>
        /\ tr.last.prior # <<>> =>
              /\ Replayed
              /\ Seen(tr.last.res[1]) = tr.last.prior[1]
              /\ tr.hist[tr.last.req] = tr.last.prior

\* C3 amended: in record-if-missing mode, a RoundTrip that finds no file for
\* its request calls the wrapped RoundTripper once and, when that answers
\* and the response is saved, returns that response, whatever its status
\* code; when no other RoundTrip ran beside it, it leaves that response in
\* the file at the checksum-qualified path; and when the RoundTrips are made
\* one after another, a RoundTrip of a request recorded before returns a
\* response equal to the recorded one in every field and in the bytes of
\* the body, without calling the wrapped RoundTripper, also when that would
\* now fail.
RecordIfMissingReplaysInTurn ==
    Called =>
        /\ (Fingerprinted /\ NothingFound) =>
              /\ Count(tr.last.trace, "transport") = 1
              /\ tr.last.out = "ok" =>
                    /\ Seen(tr.last.res[1]) = Seen(tr.last.given[1])
                    /\ tr.last.alone =>
                          /\ fs.files[PathOf(tr.last.req)] = FileOfResponse(tr.last.given[1])
                          /\ tr.hist[tr.last.req] = <<Seen(tr.last.given[1])>>
        /\ (InTurn /\ tr.last.prior # <<>>) =>
              /\ Replayed
              /\ Seen(tr.last.res[1]) = tr.last.prior[1]
              /\ tr.hist[tr.last.req] = tr.last.prior

\* A 404 with a body that begins with a newline, recorded before, is
\* returned again while the wrapped RoundTripper is failing.
ReplayWhileOfflineWitness ==
    /\ Called /\ tr.last.mode = ModeRecordIfMissing
    /\ InTurn
    /\ tr.last.prior = <<Seen(RespB)>>
    /\ tr.last.offline
    /\ Replayed
    /\ Seen(tr.last.res[1]) = Seen(RespB)

\* The entries of multimap m whose key is not excluded.
Relevant(m, excludes) == {e \in Range(m) : e[1] \notin excludes}

\* Two requests with one method and URL that differ in their non-excluded
\* headers, their non-excluded query parameters or their body.
Distinguished(a, b) ==
    /\ a.Method = b.Method /\ a.Scheme = b.Scheme /\ a.Host = b.Host /\ a.Path = b.Path
    /\ \/ Relevant(a.Header, DefaultOmitHeaders) # Relevant(b.Header, DefaultOmitHeaders)
       \/ Relevant(a.Query, {}) # Relevant(b.Query, {})
       \/ a.Body # b.Body

\* The two requests of the behaviour are distinguished.
DistinguishedPair == \A a, b \in tr.reqs : a # b => Distinguished(a, b)

\* What the store holds for request req, as a response seen.
Stored(req) == Seen(Response(LoadRecording(fs, PathOf(req)).rec))

\* Each request recorded has its own recording, and a replay gives a request
\* the response the server gave for it.
OwnRecordings ==
    /\ Replayed =>
          /\ tr.last.prior # <<>>
          /\ Seen(tr.last.res[1]) = tr.last.prior[1]
    /\ tr.last.prior # <<>> => Replayed
    /\ \A r \in tr.reqs :
          tr.hist[r] # <<>> =>
              /\ LoadRecording(fs, PathOf(r)).out = "ok"
              /\ Stored(r) = tr.hist[r][1]

\* C4 as stated: in record-if-missing mode with StrictPath off, two requests
\* with one method and URL path that differ in their non-excluded headers,
\* query parameters or body, sent in any order, each have their own
\* recording once sent, and a replay of either returns the response the
\* server gave for it; taken for RoundTrips made one after another, where
\* it fails already.
OwnRecordingPerRequest == (Called /\ DistinguishedPair /\ InTurn) => OwnRecordings

\* The checksum of request req (empty also when none is computed).
ChecksumOf(req) == FingerprintOf(req).checksum

\* The first request recorded was one with the empty checksum.
EmptyChecksumRecordedFirst == tr.order # <<>> /\ ChecksumOf(tr.order[1]) = <<>>

\* C4 amended: the same for two requests whose checksums differ, over a
\* store that was empty, sent in RoundTrips made one after another, unless
\* the first of them to be recorded is one with the empty checksum.
OwnRecordingPerChecksum ==
    (/\ Called
     /\ DistinguishedPair
     /\ InTurn
     /\ \A a, b \in tr.reqs : a # b => ChecksumOf(a) # ChecksumOf(b)
     /\ ~EmptyChecksumRecordedFirst) => OwnRecordings

\* The request with header X was recorded, then the one with nothing to tell
\* it apart, with different responses; the first is replayed with its own.
OwnRecordingWitness ==
    /\ Called /\ tr.reqs = {ReqXa, ReqBare}
    /\ tr.order = <<ReqXa, ReqBare>>
    /\ tr.last.req = ReqXa /\ Replayed
    /\ tr.hist[ReqXa] # tr.hist[ReqBare]
    /\ Seen(tr.last.res[1]) = tr.hist[ReqXa][1]
    /\ PathOf(ReqXa) # PathOf(ReqBare)

\* The generic path of request req under the client's directory.
GenericPathOf(req) == FilepathJoin(<<tr.rt.Dir, GenericPath(FingerprintOf(req))>>)

\* Request req has a checksum, file system f has no file at its
\* checksum-qualified path and has a recording that loads at its generic path.
GenericOnly(f, req) ==
    /\ ChecksumOf(req) # <<>>
    /\ ~Exists(f, PathOf(req))
    /\ LoadRecording(f, GenericPathOf(req)).out = "ok"

\* Record r of a RoundTrip over file system f: the request was answered with
\* the recording at its generic path, and the wrapped RoundTripper not called.
ServedGeneric(f, r) ==
    /\ r.out = "ok"
    /\ Count(r.trace, "transport") = 0
    /\ Seen(r.res[1]) = Seen(Response(LoadRecording(f, GenericPathOf(r.req)).rec))

\* Record r of a RoundTrip with StrictPath on: the generic path was not
\* loaded, a response returned is the one the wrapped RoundTripper gave, and
\* in playback-only mode the not-exist error is returned.
GenericUntouched(r) ==
    /\ \A i \in DOMAIN r.trace :
          r.trace[i].op = "load" => r.trace[i].path # GenericPathOf(r.req)
    /\ r.out = "ok" => (r.given # <<>> /\ Seen(r.res[1]) = Seen(r.given[1]))
    /\ r.mode = ModePlaybackOnly => (r.out = "err" /\ r.err = OtherError("notexist"))

\* The last RoundTrip was of a request for which the store had a recording
\* at the generic path only, from when the RoundTrip began: no other
\* RoundTrip ran beside it.
RoundTripOfGenericOnly ==
    Called /\ tr.last.alone /\ GenericOnly(tr.last.before, tr.last.req)

\* C13 as stated: a RoundTrip of a request with a checksum, no file at its
\* checksum-qualified path and a recording at its generic path, is answered
\* from that recording without a call of the wrapped RoundTripper when
\* StrictPath is off; when it is on, the generic file is neither read nor
\* served in any mode, and playback-only mode gives the not-exist error.
GenericFallback ==
    RoundTripOfGenericOnly =>
        IF tr.last.strict THEN GenericUntouched(tr.last)
        ELSE ServedGeneric(tr.last.before, tr.last)

\* C13 amended: the same, the answer from the generic recording with
\* StrictPath off being given in record-if-missing and playback-only modes.
GenericFallbackOnLookup ==
    RoundTripOfGenericOnly =>
        IF tr.last.strict THEN GenericUntouched(tr.last)
        ELSE tr.last.mode # ModeRecordOnly => ServedGeneric(tr.last.before, tr.last)

\* A playback-only client with StrictPath on was sent the request with header
\* X while the store held the generic recording only: one load, at the
\* checksum-qualified path, and the not-exist error.
StrictMissWitness ==
    /\ Called /\ tr.last.mode = ModePlaybackOnly /\ tr.last.strict
    /\ tr.last.req = ReqXa
    /\ GenericOnly(tr.last.before, ReqXa)
    /\ Len(Loads(tr.last.trace)) = 1
    /\ Loads(tr.last.trace)[1].path = PathOf(ReqXa)
    /\ tr.last.err = OtherError("notexist")

\* ------------------------------------------------------------------------
\* Properties of the errors and of the order of the steps of RoundTrip
\* ------------------------------------------------------------------------

\* The events of kind op of the last RoundTrip.
EventsOf(op) == SelectSeq(tr.last.trace, LAMBDA e : e.op = op)

\* The wrapped RoundTripper was called by the last RoundTrip and returned an
\* error.
TransportFailed == Called /\ EventsOf("transport") # <<>> /\ EventsOf("transport")[1].out = "err"

\* C14: when the wrapped RoundTripper returns an error, RoundTrip returns
\* that error as it is, not as the package's Error, returns no response,
\* saves nothing and leaves the file system as it was.
TransportErrorPassedThrough ==
    TransportFailed =>
        /\ tr.last.out = "err"
        /\ tr.last.err = OtherError("transport")
        /\ tr.last.res = <<>>
        /\ EventsOf("save") = <<>>
        /\ ~tr.last.wrote

\* A record-if-missing client found no recording for the request with header
\* X in a store that holds another, and the wrapped RoundTripper failed.
TransportErrorWitness ==
    /\ TransportFailed
    /\ tr.last.mode = ModeRecordIfMissing /\ tr.last.req = ReqXa
    /\ NothingFound
    /\ DOMAIN fs.files # {} /\ ~Exists(fs, PathOf(ReqXa))
    /\ tr.last.err = OtherError("transport")

\* The last event of the last RoundTrip.
LastEvent == tr.last.trace[Len(tr.last.trace)]

\* The last RoundTrip returned an error that arose in local storage: a load
\* or a Save failed, and nothing came after it.
StorageFailed ==
    /\ Called /\ tr.last.out = "err"
    /\ \/ LastEvent.op = "load"
       \/ LastEvent.op = "save" /\ LastEvent.out # "nil"

\* C15: an error RoundTrip returns for a failure in local storage, of a load
\* as well as of a Save, is the package's Error; an error of the wrapped
\* RoundTripper is never the package's Error.
StorageErrorsAreTyped ==
    /\ StorageFailed => tr.last.err.type = "Error"
    /\ TransportFailed => tr.last.err.type # "Error"

\* Path p lies inside the base directory.
Inside(p) ==
    /\ Len(p) > Len(BaseDir) + 1
    /\ SubSeq(p, 1, Len(BaseDir) + 1) = BaseDir \o <<47>>

\* C16: every file and directory in the file system, and every path the last
\* RoundTrip loaded from or saved to, lies inside the base directory Dir,
\* whatever the URL path of the request.
DirConfined ==
    /\ \A p \in DOMAIN fs.files : Inside(p)
    /\ \A d \in fs.dirs : d = BaseDir \/ Inside(d)
    /\ Called =>
          \A i \in DOMAIN tr.last.trace :
              tr.last.trace[i].op \in {"load", "save"} => Inside(tr.last.trace[i].path)

\* The outcomes of a load that are errors other than the not-exist error.
LoadFailures == {"permission", "decode"}

\* The loads ls of the last RoundTrip are the lookup of its request: the
\* checksum-qualified path, and then the generic path exactly when the first
\* load found no file, StrictPath is off and the two paths differ.
LookupOf(ls) ==
    /\ Len(ls) \in {1, 2}
    /\ ls[1].path = PathOf(tr.last.req)
    /\ Len(ls) = 2 <=> /\ ls[1].out = "notexist"
                       /\ ~tr.last.strict
                       /\ GenericPathOf(tr.last.req) # PathOf(tr.last.req)
    /\ Len(ls) = 2 => ls[2].path = GenericPathOf(tr.last.req)

\* The load that failed was the last one, and its error is what RoundTrip
\* returned, with no call of the wrapped RoundTripper and nothing written.
LoadErrorReturned(ls, i) ==
    /\ i = Len(ls)
    /\ tr.last.out = "err"
    /\ tr.last.res = <<>>
    /\ tr.last.err = OtherError(ls[i].out)
    /\ EventsOf("transport") = <<>>
    /\ EventsOf("save") = <<>>
    /\ ~tr.last.wrote

\* C17: in record-if-missing and playback-only modes the lookup loads the
\* checksum-qualified path first and the generic path only after a not-exist
\* error, with StrictPath off and the paths different; a recording that
\* loads at the checksum-qualified path is the one served, whatever is at
\* the generic path; an error of either load other than not-exist is
\* returned as it came, the wrapped RoundTripper is not called and nothing is
\* written.
LookupOrderAndErrors ==
    (Called /\ tr.last.mode # ModeRecordOnly /\ Fingerprinted) =>
        /\ LookupOf(Loads(tr.last.trace))
        /\ Loads(tr.last.trace)[1].out = "ok" =>
              /\ Replayed
              /\ Len(Loads(tr.last.trace)) = 1
              /\ Seen(tr.last.res[1]) = Stored(tr.last.req)
        /\ \A i \in DOMAIN Loads(tr.last.trace) :
              Loads(tr.last.trace)[i].out \in LoadFailures =>
                  LoadErrorReturned(Loads(tr.last.trace), i)

\* The request with header X, not recorded, was sent to a record-if-missing
\* client after the generic recording was edited and made malformed: the
\* first load found nothing, the second failed to decode, and that error was
\* returned.
MalformedGenericWitness ==
    /\ Called /\ tr.last.mode = ModeRecordIfMissing /\ ~tr.last.strict
    /\ tr.last.req = ReqXa /\ ~tr.last.offline
    /\ Len(Loads(tr.last.trace)) = 2
    /\ Loads(tr.last.trace)[1].out = "notexist"
    /\ Loads(tr.last.trace)[2].out = "decode"
    /\ tr.last.err = OtherError("decode")
    /\ fs.files[GenericPathOf(ReqXa)] = <<123>>

\* The wrapped RoundTripper was called by the last RoundTrip and returned a
\* response.
TransportAnswered ==
    Called /\ EventsOf("transport") # <<>> /\ EventsOf("transport")[1].out = "ok"

\* Request r is the request of the last RoundTrip, whatever its Body field
\* now holds: the same in every other field.
SameRequest(r) == r = [tr.last.req EXCEPT !.Body = r.Body]

\* Request r is the request of the last RoundTrip with the body that request
\* came with, at whatever position.
OriginatingRequest(r) ==
    /\ SameRequest(r)
    /\ r.Body.data = tr.last.req.Body.data

\* Response r is the response the wrapped RoundTripper gave, but for the
\* state of its body.
LiveResponse(r) == [r EXCEPT !.Body = tr.last.given[1].Body] = tr.last.given[1]

\* The response the last RoundTrip handed to its caller: the one returned,
\* or the one in the error.
HandedBack == IF tr.last.out = "ok" THEN tr.last.res ELSE tr.last.err.Response

\* After the response of the wrapped RoundTripper, NewRecording failed (Save
\* was not reached) or a step of Save failed.
RecordingFailed == TransportAnswered /\ (EventsOf("save") = <<>> \/ tr.last.fault # "none")

\* C18: when the wrapped RoundTripper gave a response and NewRecording or
\* Save failed, RoundTrip returns the package's Error with the request and
\* that response in it, and no response beside it; when NewRecording
\* succeeded, the response returned or the one in the Error has a body that
\* delivers all the bytes of the response from the first on.
ResponseNotDiscarded ==
    /\ RecordingFailed =>
          /\ tr.last.out = "err"
          /\ tr.last.res = <<>>
          /\ tr.last.err.type = "Error"
          /\ Len(tr.last.err.Request) = 1
          /\ OriginatingRequest(tr.last.err.Request[1])
          /\ Len(tr.last.err.Response) = 1
          /\ LiveResponse(tr.last.err.Response[1])
    /\ (TransportAnswered /\ EventsOf("save") # <<>>) =>
          /\ Len(HandedBack) = 1
          /\ LiveResponse(HandedBack[1])
          /\ HandedBack[1].Body.pos = 0
          /\ Readable(HandedBack[1].Body) = tr.last.given[1].Body.data

\* The fingerprint of the last RoundTrip met an error: the body of its
\* request fails when it is read or restored.
BodyFailed == Called /\ tr.last.req.Body.fail # "none"

\* C19: when reading or restoring the body of the request fails during the
\* fingerprint, RoundTrip returns the package's Error with the request in it,
\* no response, and the failure as its cause; nothing is loaded, the wrapped
\* RoundTripper is not called, and nothing is saved or written.
FingerprintErrorIsTerminal ==
    BodyFailed =>
        /\ tr.last.out = "err"
        /\ tr.last.res = <<>>
        /\ tr.last.err.type = "Error"
        /\ Len(tr.last.err.Request) = 1
        /\ SameRequest(tr.last.err.Request[1])
        /\ tr.last.err.Response = <<>>
        /\ tr.last.err.cause = tr.last.req.Body.fail
        /\ Len(tr.last.trace) = 1
        /\ ~tr.last.wrote

\* The place of a step in a RoundTrip.
StepRank(op) ==
    CASE op = "fingerprint" -> 1 [] op = "load" -> 2 [] op = "transport" -> 3
      [] op = "save" -> 4

\* Event e is a step that failed: a fingerprint that gave no path, a load
\* with an error other than not-exist, a wrapped RoundTripper that returned
\* an error, a Save that returned one.
StepFailed(e) ==
    \/ e.op = "fingerprint" /\ e.out # "ok"
    \/ e.op = "load" /\ e.out \notin {"ok", "notexist"}
    \/ e.op = "transport" /\ e.out # "ok"
    \/ e.op = "save" /\ e.out # "nil"

\* The steps of trace t, of a RoundTrip of request req by a client of the
\* given mode, are in order and happen at most once (a load at most twice).
StepsInOrder(t, req, mode) ==
    /\ t # <<>> /\ t[1].op = "fingerprint"
    /\ \A i, j \in DOMAIN t : i < j => StepRank(t[i].op) <= StepRank(t[j].op)
    /\ Count(t, "fingerprint") = 1
    /\ Count(t, "load") <= 2
    /\ Count(t, "transport") <= 1
    /\ Count(t, "save") <= 1
    /\ Loads(t) # <<>> => Loads(t)[1].path = PathOf(req)
    /\ Len(Loads(t)) = 2 =>
          /\ Loads(t)[2].path = GenericPathOf(req)
          /\ GenericPathOf(req) # PathOf(req)
    /\ Count(t, "transport") = 1 =>
          \/ mode = ModeRecordOnly /\ Loads(t) = <<>>
          \/ /\ mode = ModeRecordIfMissing /\ Loads(t) # <<>>
             /\ \A i \in DOMAIN Loads(t) : Loads(t)[i].out = "notexist"
    /\ \A i \in DOMAIN t :
          t[i].op = "save" =>
              /\ t[i].path = PathOf(req)
              /\ t[i - 1].op = "transport" /\ t[i - 1].out = "ok"

\* C20: in one RoundTrip the steps happen at most once each and in the order
\* fingerprint, lookup, wrapped RoundTripper, Save: at most two loads, at the
\* checksum-qualified path and then the generic path; the wrapped
\* RoundTripper at most once, after a lookup that found no file or without
\* a lookup in record-only mode; Save at most once, right after a response
\* of the wrapped RoundTripper, to the checksum-qualified path; a step that
\* failed is the last one, and RoundTrip then returns no response.
StepsOnceInOrder ==
    Called =>
        /\ StepsInOrder(tr.last.trace, tr.last.req, tr.last.mode)
        /\ \A i \in DOMAIN tr.last.trace :
              StepFailed(tr.last.trace[i]) =>
                  /\ i = Len(tr.last.trace)
                  /\ tr.last.out # "ok" /\ tr.last.res = <<>>

\* A RoundTrip that took every step: the fingerprint, two loads that found
\* no file, the wrapped RoundTripper and the Save.
EveryStepWitness ==
    /\ Called /\ tr.last.out = "ok"
    /\ Len(tr.last.trace) = 5
    /\ Len(Loads(tr.last.trace)) = 2
    /\ Count(tr.last.trace, "transport") = 1
    /\ LastEvent.op = "save" /\ LastEvent.path = PathOf(tr.last.req)
    /\ DOMAIN fs.files # {PathOf(tr.last.req)}

\* Every file of file system b is in file system f, with the same bytes and
\* the same permission.
StoreKept(b, f) ==
    \A p \in DOMAIN b.files :
        /\ p \in DOMAIN f.files
        /\ f.files[p] = b.files[p]
        /\ (p \in f.noperm) = (p \in b.noperm)

\* The paths of f that b does not have, or has with other bytes.
WrittenPaths(b, f) ==
    {p \in DOMAIN f.files : p \notin DOMAIN b.files \/ f.files[p] # b.files[p]}

\* C21: a RoundTrip of a record-if-missing client, made after the ones before
\* it have returned, leaves every file the store had as it was (not
\* overwritten, modified or removed); the one path it may write is its
\* checksum-qualified path, which had no file, so that no path is written
\* twice; and a RoundTrip answered from the store leaves the store unchanged.
ExistingRecordingsKept ==
    (Called /\ tr.last.mode = ModeRecordIfMissing /\ tr.last.alone) =>
        /\ StoreKept(tr.last.before, fs)
        /\ WrittenPaths(tr.last.before, fs) \subseteq
               {PathOf(tr.last.req)} \ DOMAIN tr.last.before.files
        /\ WrittenPaths(tr.last.before, fs) # {} => Recorded(tr.last)
        /\ Replayed => fs = tr.last.before

\* A record-if-missing client with StrictPath on recorded the request with
\* header X while the store held the recording of the request without it:
\* the store then holds both, the earlier one as it was.
SecondRecordingWitness ==
    /\ Called /\ tr.last.mode = ModeRecordIfMissing /\ tr.last.alone
    /\ tr.last.req = ReqXa
    /\ Recorded(tr.last)
    /\ DOMAIN tr.last.before.files = {GenericPathOf(ReqXa)}
    /\ DOMAIN fs.files = {GenericPathOf(ReqXa), PathOf(ReqXa)}
    /\ fs.files[GenericPathOf(ReqXa)] = tr.last.before.files[GenericPathOf(ReqXa)]

\* ------------------------------------------------------------------------
\* Properties of the fingerprint
\* ------------------------------------------------------------------------

\* C5: for a request with a body, be it seekable, re-obtainable through
\* GetBody, or neither, RecordingPath ends with a path or with an error, and
\* when it ends with a path the body of the request then delivers all its
\* bytes from the first on.
FingerprintRestoresBody ==
    (fp.pc # "new" /\ fp.reqA.Body.kind # "nil") =>
        /\ fp.resA.out \in {"ok", "err"}
        /\ fp.resA.out = "ok" => Rest(fp.resA.body) = fp.reqA.Body.data

\* Requests a and b have one method, scheme, host and path, the same
\* non-excluded query parameters and headers with the same value lists, and
\* the same body.
SameFingerprintInput(p, a, b) ==
    /\ a.Method = b.Method /\ a.Scheme = b.Scheme /\ a.Host = b.Host /\ a.Path = b.Path
    /\ Relevant(a.Query, p.OmitQuery) = Relevant(b.Query, p.OmitQuery)
    /\ Relevant(a.Header, p.OmitHeaders) = Relevant(b.Header, p.OmitHeaders)
    /\ a.Body = b.Body

\* C9: two requests with the same method, scheme, host and path, the same
\* non-excluded query parameters and headers (the same keys with the same
\* value lists, the keys in any order) and the same body have the same
\* outcome of RecordingPath, and when that is a path, equal directory and
\* checksum and so equal Path() and GenericPath().
RecordingPathDeterministic ==
    (fp.pc = "two" /\ SameFingerprintInput(fp.gen, fp.reqA, fp.reqB)) =>
        /\ fp.resA.out = fp.resB.out
        /\ fp.resA.out = "ok" =>
              /\ fp.resA.dir = fp.resB.dir
              /\ fp.resA.checksum = fp.resB.checksum
              /\ Path(fp.resA) = Path(fp.resB)
              /\ GenericPath(fp.resA) = GenericPath(fp.resB)

\* Two query parameters, none excluded, presented in the two orders.
KeyOrderWitness ==
    /\ fp.pc = "two" /\ fp.gen.OmitQuery = {}
    /\ Len(fp.reqA.Query) = 2 /\ fp.reqA.Query # fp.reqB.Query
    /\ SameFingerprintInput(fp.gen, fp.reqA, fp.reqB)
    /\ fp.resA.out = "ok" /\ fp.resA.checksum # <<>>
    /\ fp.resA.checksum = fp.resB.checksum

\* Requests a and b are the same but for the entries of excluded names, in
\* which they differ.
OnlyExcludedDiffer(p, a, b) ==
    /\ SameFingerprintInput(p, a, b)
    /\ a.Query # b.Query \/ a.Header # b.Header
    /\ Keys(SelectSeq(a.Query, LAMBDA e : e[1] \notin p.OmitQuery))
         = Keys(SelectSeq(b.Query, LAMBDA e : e[1] \notin p.OmitQuery))
    /\ Keys(SelectSeq(a.Header, LAMBDA e : e[1] \notin p.OmitHeaders))
         = Keys(SelectSeq(b.Header, LAMBDA e : e[1] \notin p.OmitHeaders))

\* Maps ma and mb have the same non-excluded keys and the same values for
\* them, but for one key, whose value lists va and vb satisfy Changed.
OneKeyChanged(ma, mb, excludes, Changed(_, _)) ==
    \E ea \in Relevant(ma, excludes), eb \in Relevant(mb, excludes) :
        /\ ea[1] = eb[1]
        /\ Changed(ea[2], eb[2])
        /\ Relevant(ma, excludes) \ {ea} = Relevant(mb, excludes) \ {eb}

\* Requests a and b are the same but for the value list of one non-excluded
\* query parameter or header.
OneValueChanged(p, a, b, Changed(_, _)) ==
    /\ a.Method = b.Method /\ a.Scheme = b.Scheme /\ a.Host = b.Host /\ a.Path = b.Path
    /\ a.Body = b.Body
    /\ \/ /\ OneKeyChanged(a.Query, b.Query, p.OmitQuery, Changed)
          /\ Relevant(a.Header, p.OmitHeaders) = Relevant(b.Header, p.OmitHeaders)
       \/ /\ OneKeyChanged(a.Header, b.Header, p.OmitHeaders, Changed)
          /\ Relevant(a.Query, p.OmitQuery) = Relevant(b.Query, p.OmitQuery)

Differ(va, vb) == va # vb

\* Byte strings x and y have one length and differ, all their differences
\* lying within w consecutive bytes.
DifferWithin(x, y, w) ==
    /\ Len(x) = Len(y) /\ x # y
    /\ \A i, j \in DOMAIN x : (x[i] # y[i] /\ x[j] # y[j]) => j - i < w

\* The value lists fed to the hash differ within four bytes in place.
ChangedInPlace(va, vb) == DifferWithin(Concat(va), Concat(vb), 4)

BothFingerprinted == fp.pc = "two" /\ fp.resA.out = "ok" /\ fp.resB.out = "ok"

\* C10 as stated: the values of an excluded header or query parameter, and
\* its presence, never change the checksum; a change of the values of a
\* header or query parameter that is not excluded changes the checksum.
ExclusionCorrect ==
    BothFingerprinted =>
        /\ OnlyExcludedDiffer(fp.gen, fp.reqA, fp.reqB) =>
              fp.resA.checksum = fp.resB.checksum
        /\ OneValueChanged(fp.gen, fp.reqA, fp.reqB, Differ) =>
              fp.resA.checksum # fp.resB.checksum

\* C10 amended: the values of an excluded header or query parameter, and its
\* presence, never change the checksum; a change of the values of one that
\* is not excluded changes the checksum when the bytes of its values, one
\* after the other, keep their number and change within four consecutive
\* bytes.
ExclusionCorrectInPlace ==
    BothFingerprinted =>
        /\ OnlyExcludedDiffer(fp.gen, fp.reqA, fp.reqB) =>
              fp.resA.checksum = fp.resB.checksum
        /\ OneValueChanged(fp.gen, fp.reqA, fp.reqB, ChangedInPlace) =>
              fp.resA.checksum # fp.resB.checksum

\* Query parameter "q" changed from one byte to another while the excluded
\* parameter "t" changed too: the checksums differ, and they are the ones
\* of the requests without "t".
ValueChangedWitness ==
    /\ BothFingerprinted /\ fp.gen.OmitQuery = {kT}
    /\ Len(fp.reqA.Query) = 2 /\ Len(fp.reqB.Query) = 2
    /\ OneValueChanged(fp.gen, fp.reqA, fp.reqB, ChangedInPlace)
    /\ Lookup(fp.reqA.Query, kT) # Lookup(fp.reqB.Query, kT)
    /\ fp.resA.checksum # fp.resB.checksum
    /\ fp.resA.checksum =
         RequestCRC(fp.gen, [fp.reqA EXCEPT !.Query = << <<kQ, Lookup(fp.reqA.Query, kQ)>> >>]).crc

\* The number of times v occurs in value list vl.
Occurrences(vl, v) == Cardinality({i \in DOMAIN vl : vl[i] = v})

\* Value list vb is va in another order.
Reordered(va, vb) ==
    /\ va # vb
    /\ \A v \in Range(va) \cup Range(vb) : Occurrences(va, v) = Occurrences(vb, v)

\* C11 as stated: reordering the values of one non-excluded header or query
\* parameter, the rest of the request unchanged, changes the checksum.
ReorderChangesChecksum ==
    (BothFingerprinted /\ OneValueChanged(fp.gen, fp.reqA, fp.reqB, Reordered)) =>
        fp.resA.checksum # fp.resB.checksum

\* Value list vb is va in another order, and the bytes fed to the hash for
\* them differ, within four consecutive bytes.
ReorderedInPlace(va, vb) == Reordered(va, vb) /\ ChangedInPlace(va, vb)

\* C11 amended: reordering the values of one non-excluded header or query
\* parameter, the rest of the request unchanged, changes the checksum when
\* the bytes of the values, one after the other, change with it, within four
\* consecutive bytes.
ReorderInPlaceChangesChecksum ==
    (BothFingerprinted /\ OneValueChanged(fp.gen, fp.reqA, fp.reqB, ReorderedInPlace)) =>
        fp.resA.checksum # fp.resB.checksum

\* Header X with the values "a", "b" and then "b", "a": two checksums.
ReorderWitness ==
    /\ BothFingerprinted
    /\ fp.reqA.Header = Header1(kX, <<sA, sB>>)
    /\ fp.reqB.Header = Header1(kX, <<sB, sA>>)
    /\ OneValueChanged(fp.gen, fp.reqA, fp.reqB, ReorderedInPlace)
    /\ fp.resA.checksum # fp.resB.checksum

\* The bytes of the entries of multimap m that are not excluded, as they are
\* hashed: for each key in increasing order, the key and then its values.
FedOf(m, excludes) ==
    LET ks == SortStrings(SelectSeq(Keys(m), LAMBDA k : k \notin excludes))
    IN  Concat([i \in 1..Len(ks) |-> ks[i] \o Concat(Lookup(m, ks[i]))])

\* The bytes of the body of request req that generator p hashes.
HashedBody(p, req) ==
    IF req.Body.kind = "nil" THEN <<>> ELSE Munge(p, Readable(req.Body))

\* Request req has nothing generator p tells it apart by: no query parameter
\* and no header that is not excluded, and no body byte that is hashed.
Plain(p, req) ==
    /\ Relevant(req.Query, p.OmitQuery) = {}
    /\ Relevant(req.Header, p.OmitHeaders) = {}
    /\ HashedBody(p, req) = <<>>

\* The IEEE CRC-32, in decimal, of everything generator p hashes of req.
DecimalCRC(p, req) ==
    FormatSum32(HashWrite(NewIEEE, FedOf(req.Query, p.OmitQuery)
                                   \o FedOf(req.Header, p.OmitHeaders)
                                   \o HashedBody(p, req)))

\* s is a decimal numeral: digits, with no leading zero but for "0".
IsDecimal(s) ==
    /\ s # <<>>
    /\ \A i \in DOMAIN s : IsDigit(s[i])
    /\ Len(s) > 1 => s[1] # 48

\* C12: when RecordingPath returns a path, the checksum is empty exactly when
\* the request has no non-excluded query parameter, no non-excluded header
\* and no hashed body byte, and exactly then Path() is GenericPath();
\* otherwise the checksum is the CRC-32 in decimal and Path() is
\* request.<checksum>.json in the directory of GenericPath(), which is
\* request.json in the directory of the request in every case.
ChecksumWhenDistinguished ==
    (fp.pc # "new" /\ fp.resA.out = "ok") =>
        /\ fp.resA.checksum = <<>> <=> Plain(fp.gen, fp.reqA)
        /\ Path(fp.resA) = GenericPath(fp.resA) <=> Plain(fp.gen, fp.reqA)
        /\ GenericPath(fp.resA) = fp.resA.dir \o <<47>> \o GenericName
        /\ ~Plain(fp.gen, fp.reqA) =>
              /\ IsDecimal(fp.resA.checksum)
              /\ fp.resA.checksum = DecimalCRC(fp.gen, fp.reqA)
              /\ FilepathSplit(Path(fp.resA)).dir = FilepathSplit(GenericPath(fp.resA)).dir
              /\ FilepathSplit(Path(fp.resA)).file
                    = NamePrefix \o fp.resA.checksum \o NameSuffix

\* A request with a body of digits only, under a generator whose hook takes
\* the digits out: nothing is hashed, and the path is the generic one.
NothingHashedWitness ==
    /\ fp.pc # "new" /\ fp.resA.out = "ok"
    /\ fp.gen.MungeRequestBody # "nil"
    /\ fp.reqA.Body.data = <<49>>
    /\ fp.resA.checksum = <<>>
    /\ Path(fp.resA) = GenericPath(fp.resA)

\* The bytes the hook of the model returns for a body: all but the digits.
WithoutDigits(data) == SelectSeq(data, LAMBDA c : c < 48 \/ c > 57)

\* Requests a and b differ at most in body bytes that the hook of generator
\* p removes: one method and URL, the same non-excluded query parameters and
\* headers, and bodies that are equal without their digits.
SameButRemoved(p, a, b) ==
    /\ a.Method = b.Method /\ a.Scheme = b.Scheme /\ a.Host = b.Host /\ a.Path = b.Path
    /\ Relevant(a.Query, p.OmitQuery) = Relevant(b.Query, p.OmitQuery)
    /\ Relevant(a.Header, p.OmitHeaders) = Relevant(b.Header, p.OmitHeaders)
    /\ WithoutDigits(a.Body.data) = WithoutDigits(b.Body.data)

\* The file name of the recording of req under generator p with the hook:
\* request.json when nothing is hashed, else request.<checksum>.json, the
\* checksum being the CRC-32 of the non-excluded query parameters and
\* headers and of the body bytes the hook returns.
NameUnder(p, req) ==
    LET hashed == FedOf(req.Query, p.OmitQuery) \o FedOf(req.Header, p.OmitHeaders)
                  \o WithoutDigits(req.Body.data)
    IN  IF /\ Relevant(req.Query, p.OmitQuery) = {}
           /\ Relevant(req.Header, p.OmitHeaders) = {}
           /\ WithoutDigits(req.Body.data) = <<>>
        THEN GenericName
        ELSE NamePrefix \o FormatSum32(HashWrite(NewIEEE, hashed)) \o NameSuffix

\* C22: with a body hook configured, a RoundTrip whose fingerprint gave a
\* path looks the request up under the checksum of the bytes the hook
\* returned, saves there, and hands the wrapped RoundTripper the whole body
\* as the request came with it; and two requests that differ only in body
\* bytes the hook removes have the same recording path.
HookHashesOnly ==
    (Called /\ tr.rt.PathGenerator.MungeRequestBody # "nil"
            /\ tr.last.trace[1].out = "ok") =>
        /\ Loads(tr.last.trace) # <<>>
        /\ FilepathSplit(Loads(tr.last.trace)[1].path).file
              = NameUnder(tr.rt.PathGenerator, tr.last.req)
        /\ \A i \in DOMAIN tr.last.trace :
              /\ tr.last.trace[i].op = "transport" =>
                    tr.last.trace[i].path = tr.last.req.Body.data
              /\ tr.last.trace[i].op = "save" =>
                    tr.last.trace[i].path = Loads(tr.last.trace)[1].path
        /\ \A a, b \in tr.reqs :
              (/\ SameButRemoved(tr.rt.PathGenerator, a, b)
               /\ RecordingPath(tr.rt.PathGenerator, a).out = "ok"
               /\ RecordingPath(tr.rt.PathGenerator, b).out = "ok") =>
                  Path(RecordingPath(tr.rt.PathGenerator, a))
                     = Path(RecordingPath(tr.rt.PathGenerator, b))

\* The request with body "a1" was recorded, the wrapped RoundTripper having
\* been given "a1", and the request with body "a2" was then answered from
\* that recording, the one file of the store.
DigitsReplayedWitness ==
    /\ Called /\ tr.rt = MungeClient /\ tr.reqs = {ReqA1, ReqA2}
    /\ tr.last.req = ReqA2 /\ Replayed
    /\ tr.hist[ReqA1] # <<>> /\ tr.hist[ReqA2] = <<>>
    /\ Seen(tr.last.res[1]) = tr.hist[ReqA1][1]
    /\ Cardinality(DOMAIN fs.files) = 1
    /\ \A path \in DOMAIN fs.files :
          FilepathSplit(path).file = NameUnder(MungeGenerator, ReqBody)

\* ------------------------------------------------------------------------
\* Properties of the store
\* ------------------------------------------------------------------------

\* The recordings a complete file at the target can hold: those of the two
\* Saves and the one that was there before.
Whole == {SaverRec(i) : i \in Savers} \cup (IF sv.old = <<>> THEN {} ELSE {Rec0})

AllSaved == \A i \in Savers : sv.savers[i].pc = "done"

\* C7: whatever the interleaving of the steps of two Saves and of
\* LoadRecording on one path, the file at the path is absent or is the
\* complete file of one Save: before any rename what was there before, then
\* the file of the Save that renamed last; a load returns the not-exist
\* error or one complete recording; both Saves return no error.
TargetIsAtomic ==
    /\ sv.renamed = <<>> =>
          IF sv.old = <<>> THEN ~Exists(fs, CodecPath)
          ELSE Exists(fs, CodecPath) /\ fs.files[CodecPath] = sv.old[1]
    /\ sv.renamed # <<>> =>
          /\ Exists(fs, CodecPath)
          /\ fs.files[CodecPath] = FileOf(SaverRec(sv.renamed[Len(sv.renamed)]))
    /\ sv.loader.got.out # "none" =>
          \/ IsNotExist(sv.loader.got)
          \/ /\ sv.loader.got.out = "ok"
             /\ \E rec \in Whole : SameRecording(sv.loader.got.rec, rec)
    /\ \A i \in Savers : sv.savers[i].err = "nil"
    /\ AllSaved => Len(sv.renamed) = Cardinality(Savers)

\* The two Saves overlapped: the first made its temporary file, then the
\* second made its own and renamed it, and only then did the first rename.
\* A load in between returned the second's recording; the file is now the
\* first's, and no temporary file is left.
LastRenameWinsWitness ==
    /\ AllSaved /\ sv.made = <<1, 2>> /\ sv.renamed = <<2, 1>> /\ sv.old # <<>>
    /\ sv.loader.got.out = "ok" /\ SameRecording(sv.loader.got.rec, Rec2)
    /\ fs.files[CodecPath] = FileOf(Rec1)
    /\ DOMAIN fs.files = {CodecPath}

\* C8: a Save with a step that fails (MkdirAll, TempFile, Encode, Write,
\* Close or Rename), running alone, returns an error, leaves no temporary
\* file, and leaves at the target what was there before.
FailedSaveLeavesTarget ==
    \A i \in Savers :
        (sv.started = {i} /\ sv.savers[i].pc = "done" /\ sv.savers[i].fault # "none") =>
            /\ sv.savers[i].err # "nil"
            /\ DOMAIN fs.files \subseteq {CodecPath}
            /\ IF sv.old = <<>> THEN ~Exists(fs, CodecPath)
               ELSE Exists(fs, CodecPath) /\ fs.files[CodecPath] = sv.old[1]

\* ------------------------------------------------------------------------
\* Properties of overlapping calls
\* ------------------------------------------------------------------------

\* The complete files of the recordings the record-if-missing client makes.
WholeFiles == {FileOf(NewRecording(res).rec) : res \in {RespA, RespB}}

\* Has the call of goroutine g made its temporary file and not yet renamed
\* or removed it.
HoldsTemp(g) ==
    /\ tr.run[g].c.pc = "save"
    /\ tr.run[g].c.save.pc \in {"encode", "write", "close", "rename", "remove"}

\* A call that ran with no other beside it returns, and leaves in the
\* store, what RoundTrip run from its first statement to its return does
\* from the store the call began with.
SequentialCallsAgree ==
    (Called /\ tr.last.alone) =>
        LET Same(r) ==
                /\ r.out = tr.last.out /\ r.res = tr.last.res /\ r.err = tr.last.err
                /\ r.trace = tr.last.trace
                /\ r.fs = fs
        IN  Same(RoundTrip(tr.rt, tr.last.before, tr.last.req,
                           Env(tr.last.given, tr.last.fault)))

\* However the calls of the record-if-missing client of SpecRIM, whose store
\* nothing else changes, overlap, every file of
\* the store is the temporary file of a Save in progress or the complete
\* file of one recording, and no load fails because of what the other call
\* does.
OverlapKeepsRecordingsWhole ==
    /\ \A p \in DOMAIN fs.files :
          \/ \E g \in Callers : HoldsTemp(g) /\ Resolve(fs, tr.run[g].c.save.tmp).at = p
          \/ fs.files[p] \in WholeFiles
    /\ Called =>
          \A i \in DOMAIN tr.last.trace :
              tr.last.trace[i].op = "load" => tr.last.trace[i].out \in {"ok", "notexist"}

\* Two calls for one request at the same time, the store empty: both found
\* no recording, both called the wrapped RoundTripper and saved; the call
\* that returned last returned its own response, and the file is the one of
\* the other, which renamed last.
RacingCallsBothRecord ==
    /\ Called /\ Quiet /\ tr.calls = 2 /\ ~tr.last.alone
    /\ tr.rt = NewClient(BaseDir)
    /\ tr.last.req = ReqXa /\ tr.last.before = EmptyFS
    /\ Len(Loads(tr.last.trace)) = 2
    /\ Recorded(tr.last)
    /\ Seen(tr.last.res[1]) = Seen(RespA)
    /\ tr.hist[ReqXa] = <<Seen(RespB)>>
    /\ DOMAIN fs.files = {PathOf(ReqXa)}
    /\ fs.files[PathOf(ReqXa)] = FileOfResponse(RespB)

\* The client's OmitHeaders was given header X, then the request with header
\* X was sent over the empty store: X is left out of the checksum, there is
\* one load, and the recording is written to the generic path.
OmitHeadersAddWitness ==
    /\ Called /\ tr.last.alone /\ tr.last.req = ReqXa /\ Recorded(tr.last)
    /\ tr.rt.PathGenerator.OmitHeaders = StringSetAdd(DefaultOmitHeaders, {kX})
    /\ tr.last.before = EmptyFS
    /\ Len(Loads(tr.last.trace)) = 1
    /\ FingerprintOf(ReqXa).checksum = <<>>
    /\ DOMAIN fs.files = {GenericPathOf(ReqXa)}

\* Date was taken out of the client's OmitHeaders, then the request with a
\* Date header was sent over the empty store: the recording is written to
\* the path with the checksum of the Date header, 2567739218.
OmitHeadersDelWitness ==
    /\ Called /\ tr.last.alone /\ tr.last.req = ReqDate /\ Recorded(tr.last)
    /\ tr.rt.PathGenerator.OmitHeaders = StringSetDel(DefaultOmitHeaders, {kDate})
    /\ tr.last.before = EmptyFS
    /\ FingerprintOf(ReqDate).checksum = <<50, 53, 54, 55, 55, 51, 57, 50, 49, 56>>
    /\ DOMAIN fs.files = {PathOf(ReqDate)}
    /\ PathOf(ReqDate) # GenericPathOf(ReqDate)
====
